---- MODULE Spec2Model ----
(***************************************************************************)
(* A model of strffi: the transcoding iterators of encoding/conv (driven   *)
(* one call of next() at a time) and the owned/borrowed string life cycle  *)
(* of sea.rs over the structures of structure/mod.rs.                      *)
(*                                                                         *)
(* Numbers are written in decimal; the hexadecimal value of the source is  *)
(* given in the comment next to each.  Units are modelled by the unsigned  *)
(* value of their bit pattern, except wchar_t on the UTF-32 host, which is *)
(* a signed 32-bit value.                                                  *)
(***************************************************************************)
EXTENDS Integers, Sequences, FiniteSets, TLC

VARIABLES
    host,     \* "linux" (wchar_t is 32 bits) or "windows" (wchar_t is 16 bits)
    locale,   \* the multibyte encoding of the host's current locale
    pipe,     \* which transcoder is being driven
    src,      \* the units of the source slice
    srcpos,   \* number of units the source slice iterator has handed out
    m2w,      \* MbsToWcIter2 { iter, at, state }
    w2m,      \* WcsToMbIter { iter, at, buf, buf_at, buf_len, state }
    w2u,      \* WcToUniIter { at, iter }
    u2w,      \* UniToWcIter { buf, iter }
    lift,     \* LiftErrIter { iter, trap } (trap is shared with LiftTrapErrIter)
    out,      \* the items returned by the calls of next() so far, in order
    pulls,    \* srcpos as it was before each of these calls
    structure,  \* "ZeroTerm" or "Slice": the S of SeaString<S, MultiByte, Malloc>
    units,    \* the unit sequence given to SeaString::new
    heap,     \* the allocations made so far; an address is an index into heap
    life,     \* where the owned string is in its life cycle
    owned,    \* SeaString.owned
    fptr,     \* the pointer into_ptr returned to the caller
    before,   \* as_units() of the string when into_ptr consumed it
    last,     \* the operation performed last
    new_err,  \* the error SeaString::new returned ("" for Ok)
    transfers,  \* number of calls of into_ptr so far
    writes,   \* number of units stored through as_units_mut so far
    held,     \* the length of the mutable slice the caller holds (0: none)
    stages,   \* the borrowed strings operated on so far, with what
              \* into_string returned for each
    t_err,    \* the transcoding error transcode_to returned (None for none)
    other,    \* a second string of the same encoding, owned by r.owned in
              \* the memory r.heap of its own, of structure s
    cmps,     \* what the comparisons of the owned string and other returned
    view,     \* the borrowed string from_ptr returned last, with its argument
    copy,     \* the clone of the owned string
    sz,       \* a size computation of alloc_owned: its inputs and its result
    blk       \* a block of the Rust allocator, from alloc_bytes to free

convVars == <<host, locale, pipe, src, srcpos, m2w, w2m, w2u, u2w, lift, out,
              pulls>>

ownVars == <<structure, units, heap, life, owned, fptr, before, last, new_err,
             transfers, writes, held>>

strVars == <<stages, t_err, other, cmps>>

auxVars == <<view, copy, sz, blk>>

----------------------------------------------------------------------------
(* Bounds of the model *)

MaxChunks == 3      \* a source is the concatenation of at most MaxChunks chunks
MaxCalls == 8       \* next() is called at most MaxCalls times on one iterator
MaxLen == 3         \* SeaString::new is given at most MaxLen units
MaxTransfers == 2   \* into_ptr is called at most MaxTransfers times
MaxWrites == 2      \* at most MaxWrites units are stored through as_units_mut

----------------------------------------------------------------------------
(* Items: Option<Result<unit, error>> flattened to a tag and one number.    *)
(* v is the unit of an Ok item and the offset of InvalidAt/OutOfBufferAt.  *)

(* ty is the error enum an Err item belongs to ("" for the other items).   *)

Item(tag, v, ty) == [tag |-> tag, v |-> v, ty |-> ty]
NoneItem == Item("None", 0, "")
OkItem(u) == Item("Ok", u, "")
InvalidAt(ty, at) == Item("InvalidAt", at, ty)
Incomplete(ty) == Item("Incomplete", 0, ty)
OutOfBufferAt(ty, at) == Item("OutOfBufferAt", at, ty)

IsErr(item) == item.tag \in {"InvalidAt", "Incomplete", "OutOfBufferAt"}
IsOk(item) == item.tag = "Ok"
IsNone(item) == item.tag = "None"

----------------------------------------------------------------------------
(* The host's conversion routines (libc, declared in ffi.rs).  The locale  *)
(* is UTF-8 on the UTF-32 host and code page 1252 on the UTF-16 host, as   *)
(* in tests/linux_utf8.rs and tests/windows_1252.rs, or, on the UTF-32     *)
(* host, a stateful encoding with shift units in the manner of ISO 2022:   *)
(* SO (14) selects the full-width forms of the units 33..126, SI (15) the  *)
(* plain ones, a shift unit alone completes no character, and units above  *)
(* 127 are illegal.                                                        *)

MB_LEN_MAX == 16
ILLEGAL == -1        \* -1isize as usize
INCOMPLETE == -2     \* -2isize as usize
StateZero == 0       \* mem::zeroed::<mbstate_t>()

Locale == locale

Min(a, b) == IF a <= b THEN a ELSE b

IsScalar(cp) == (0 <= cp /\ cp <= 55295) \/ (57344 <= cp /\ cp <= 1114111)

\* number of units of the UTF-8 sequence led by b1; 0 when b1 cannot lead
Utf8Need(b1) ==
    IF b1 < 128 THEN 1
    ELSE IF 194 <= b1 /\ b1 <= 223 THEN 2
    ELSE IF 224 <= b1 /\ b1 <= 239 THEN 3
    ELSE IF 240 <= b1 /\ b1 <= 244 THEN 4
    ELSE 0

\* is x acceptable as unit number i (i >= 2) of a sequence led by b1
Utf8ContOk(b1, i, x) ==
    /\ 128 <= x /\ x <= 191
    /\ (i = 2 /\ b1 = 224) => x >= 160
    /\ (i = 2 /\ b1 = 237) => x <= 159
    /\ (i = 2 /\ b1 = 240) => x >= 144
    /\ (i = 2 /\ b1 = 244) => x <= 143

Utf8Value(b) ==
    CASE Len(b) = 1 -> b[1]
      [] Len(b) = 2 -> ((b[1] - 192) * 64) + (b[2] - 128)
      [] Len(b) = 3 -> ((b[1] - 224) * 4096) + ((b[2] - 128) * 64) + (b[3] - 128)
      [] OTHER -> ((b[1] - 240) * 262144) + ((b[2] - 128) * 4096)
                    + ((b[3] - 128) * 64) + (b[4] - 128)

Utf8Encode(cp) ==
    IF cp < 128 THEN <<cp>>
    ELSE IF cp < 2048 THEN <<192 + (cp \div 64), 128 + (cp % 64)>>
    ELSE IF cp < 65536 THEN
        <<224 + (cp \div 4096), 128 + ((cp \div 64) % 64), 128 + (cp % 64)>>
    ELSE <<240 + (cp \div 262144), 128 + ((cp \div 4096) % 64),
           128 + ((cp \div 64) % 64), 128 + (cp % 64)>>

SO == 14             \* shift out: the full-width forms follow
SI == 15             \* shift in: the plain forms follow
FullWidth == 65248   \* U+FF01 - 0x21: from a unit to its full-width form

IsShift(x) == x = SO \/ x = SI

\* the shift state after the shift units that b has from position i on,
\* starting in state st, and the position of the first unit after them
RECURSIVE ShiftRun(_, _, _)
ShiftRun(b, i, st) ==
    IF i > Len(b) \/ ~IsShift(b[i]) THEN [at |-> i, state |-> st]
    ELSE ShiftRun(b, i + 1, IF b[i] = SO THEN 1 ELSE 0)

\* mbrtowc in the stateful locale, with r the shift units b starts with
ShiftDecode(b, r, st) ==
    IF r.at > Len(b) THEN [ret |-> INCOMPLETE, wc |-> 0, state |-> r.state]
    ELSE IF b[r.at] >= 128 THEN [ret |-> ILLEGAL, wc |-> 0, state |-> st]
    ELSE IF b[r.at] = 0 THEN [ret |-> 0, wc |-> 0, state |-> StateZero]
    ELSE IF r.state = 1 /\ 33 <= b[r.at] /\ b[r.at] <= 126
    THEN [ret |-> r.at, wc |-> b[r.at] + FullWidth, state |-> 1]
    ELSE [ret |-> r.at, wc |-> b[r.at], state |-> r.state]

\* wcrtomb in the stateful locale
ShiftEncode(wc, st) ==
    IF 0 <= wc /\ wc < 128 /\ ~IsShift(wc)
    THEN [ret |-> IF st = 1 THEN 2 ELSE 1,
          bytes |-> IF st = 1 THEN <<SI, wc>> ELSE <<wc>>, state |-> StateZero]
    ELSE IF FullWidth + 33 <= wc /\ wc <= FullWidth + 126
    THEN [ret |-> IF st = 1 THEN 1 ELSE 2,
          bytes |-> IF st = 1 THEN <<wc - FullWidth>> ELSE <<SO, wc - FullWidth>>,
          state |-> 1]
    ELSE [ret |-> ILLEGAL, bytes |-> <<>>, state |-> st]

\* mbrtowc(&wc, buf, n, &state) on the n units of b, starting in state st:
\* ret is ILLEGAL, INCOMPLETE or the number of units used (0 for the null
\* character); an incomplete call leaves the units it has seen in the state.
mbrtowc(b, st) ==
    IF Locale = "utf8" THEN
        LET need == Utf8Need(b[1]) IN
        IF need = 0 \/ \E i \in 2..Min(Len(b), need) : ~Utf8ContOk(b[1], i, b[i])
        THEN [ret |-> ILLEGAL, wc |-> 0, state |-> st]
        ELSE IF Len(b) < need
        THEN [ret |-> INCOMPLETE, wc |-> 0, state |-> Len(b)]
        ELSE LET wc == Utf8Value(SubSeq(b, 1, need)) IN
             [ret |-> IF wc = 0 THEN 0 ELSE need, wc |-> wc, state |-> StateZero]
    ELSE IF Locale = "shift" THEN ShiftDecode(b, ShiftRun(b, 1, st), st)
    ELSE
        LET wc == IF b[1] = 128 THEN 8364 ELSE b[1] IN    \* 0x80 is U+20AC
        [ret |-> IF wc = 0 THEN 0 ELSE 1, wc |-> wc, state |-> StateZero]

\* wcrtomb(buf, wc, &state): the units written for wc, or ILLEGAL
wcrtomb(wc, st) ==
    IF Locale = "utf8" THEN
        IF IsScalar(wc)
        THEN [ret |-> Len(Utf8Encode(wc)), bytes |-> Utf8Encode(wc), state |-> StateZero]
        ELSE [ret |-> ILLEGAL, bytes |-> <<>>, state |-> st]
    ELSE IF Locale = "shift" THEN ShiftEncode(wc, st)
    ELSE
        IF (0 <= wc /\ wc < 128) \/ (160 <= wc /\ wc < 256)
        THEN [ret |-> 1, bytes |-> <<wc>>, state |-> StateZero]
        ELSE IF wc = 8364
        THEN [ret |-> 1, bytes |-> <<128>>, state |-> StateZero]
        ELSE [ret |-> ILLEGAL, bytes |-> <<>>, state |-> st]

----------------------------------------------------------------------------
(* The iterators.  Each next() is an operator from the state of the whole  *)
(* chain (the record w) to the new state and the item returned.            *)

World == [srcpos |-> srcpos, m2w |-> m2w, w2m |-> w2m, w2u |-> w2u,
          u2w |-> u2w, lift |-> lift]

Ret(w, item) == [w |-> w, item |-> item]

\* the source read as ending at its first zero unit
SliceIter_next_ZeroEnds(w) ==
    IF w.srcpos < Len(src) /\ src[w.srcpos + 1] # 0
    THEN Ret([w EXCEPT !.srcpos = @ + 1], OkItem(src[w.srcpos + 1]))
    ELSE Ret(w, NoneItem)

\* slice::Iter::next over the source units (cloned)
SliceIter_next(w) ==
    IF w.srcpos < Len(src)
    THEN Ret([w EXCEPT !.srcpos = @ + 1], OkItem(src[w.srcpos + 1]))
    ELSE Ret(w, NoneItem)

\* the exit without self.iter = None
MbsToWcFail_NoFuse(w, err) == Ret(w, err)

\* the exit of MbsToWcIter2::next on an error: self.iter = None; Some(Err(err))
MbsToWcFail(w, err) == Ret([w EXCEPT !.m2w.iter = FALSE], err)

RECURSIVE MbsToWcLoop(_, _)

\* the position advanced by one for each wide unit
MbsToWcMatch_AtOne(w, buf, r) ==
    IF r.ret = ILLEGAL THEN MbsToWcFail(w, InvalidAt("MbsToWcError", w.m2w.at))
    ELSE IF r.ret = INCOMPLETE THEN MbsToWcLoop(w, buf)
    ELSE Ret([w EXCEPT !.m2w.at = @ + 1, !.m2w.state = r.state], OkItem(r.wc))

\* the state of an incomplete attempt stored for the next one
MbsToWcMatch_KeepPartial(w, buf, r) ==
    IF r.ret = ILLEGAL THEN MbsToWcFail(w, InvalidAt("MbsToWcError", w.m2w.at))
    ELSE IF r.ret = INCOMPLETE
    THEN MbsToWcLoop([w EXCEPT !.m2w.state = r.state], buf)
    ELSE Ret([w EXCEPT !.m2w.at = @ + Len(buf), !.m2w.state = r.state],
             OkItem(r.wc))

\* the match on the result r of mbrtowc over buf, the units pulled in this
\* call of MbsToWcIter2::next
MbsToWcMatch(w, buf, r) ==
    IF r.ret = ILLEGAL THEN MbsToWcFail(w, InvalidAt("MbsToWcError", w.m2w.at))
    ELSE IF r.ret = INCOMPLETE THEN MbsToWcLoop(w, buf)
    ELSE Ret([w EXCEPT !.m2w.at = @ + Len(buf), !.m2w.state = r.state],
             OkItem(r.wc))

\* the end of the source taken as the end of the output, whatever is pending
MbsToWcPulled_Silent(buf, e) ==
    IF IsNone(e.item) THEN Ret(e.w, NoneItem)
    ELSE MbsToWcMatch(e.w, Append(buf, e.item.v),
                      mbrtowc(Append(buf, e.item.v), e.w.m2w.state))

\* the match on e, what self.iter.next() returned, with buf pulled before it
MbsToWcPulled(buf, e) ==
    IF IsNone(e.item) THEN
        IF Len(buf) = 0 THEN Ret(e.w, NoneItem)
        ELSE MbsToWcFail(e.w, Incomplete("MbsToWcError"))
    ELSE MbsToWcMatch(e.w, Append(buf, e.item.v),
                      mbrtowc(Append(buf, e.item.v), e.w.m2w.state))

\* the loop of MbsToWcIter2::next; buf holds the units pulled in this call
MbsToWcLoop(w, buf) ==
    IF Len(buf) = MB_LEN_MAX
    THEN MbsToWcFail(w, OutOfBufferAt("MbsToWcError", w.m2w.at))
    ELSE MbsToWcPulled(buf, SliceIter_next(w))

MbsToWcIter2_next(w) ==
    IF ~w.m2w.iter THEN Ret(w, NoneItem)
    ELSE MbsToWcLoop(w, <<>>)

\* buf[..] after the host routine wrote the units of bytes at its start
WriteBuf(buf, bytes) ==
    [i \in 1..Len(buf) |-> IF i <= Len(bytes) THEN bytes[i] ELSE buf[i]]

\* the arm of WcsToMbIter::next for a wide unit the host routine rejects
WcsToMbFail(w) ==
    Ret([w EXCEPT !.w2m.iter = FALSE], InvalidAt("WcsToMbError", w.w2m.at))

\* the first unit written is returned and left in the buffer to be drained
WcsToMbMatch_Repeat(w, r) ==
    LET w2 == [w EXCEPT !.w2m.state = r.state,
                        !.w2m.buf = WriteBuf(@, r.bytes)]
    IN  IF r.ret = ILLEGAL THEN WcsToMbFail(w2)
        ELSE Ret([w2 EXCEPT !.w2m.at = @ + 1, !.w2m.buf_at = 0,
                            !.w2m.buf_len = r.ret],
                 OkItem(w2.w2m.buf[1]))

\* the match on the result r of wcrtomb, which wrote into self.buf
WcsToMbMatch(w, r) ==
    LET w2 == [w EXCEPT !.w2m.state = r.state,
                        !.w2m.buf = WriteBuf(@, r.bytes)]
    IN  IF r.ret = ILLEGAL THEN WcsToMbFail(w2)
        ELSE Ret([w2 EXCEPT !.w2m.at = @ + 1, !.w2m.buf_at = 1,
                            !.w2m.buf_len = r.ret],
                 OkItem(w2.w2m.buf[1]))

\* the match on e, what self.iter.next() returned
WcsToMbPulled(e) ==
    IF IsNone(e.item) THEN Ret(e.w, NoneItem)
    ELSE WcsToMbMatch(e.w, wcrtomb(e.item.v, e.w.w2m.state))

WcsToMbIter_next(w) ==
    IF w.w2m.buf_at < w.w2m.buf_len
    THEN Ret([w EXCEPT !.w2m.buf_at = @ + 1], OkItem(w.w2m.buf[w.w2m.buf_at + 1]))
    ELSE IF ~w.w2m.iter
    THEN Ret([w EXCEPT !.w2m.buf_at = 0, !.w2m.buf_len = 0], NoneItem)
    ELSE WcsToMbPulled(SliceIter_next([w EXCEPT !.w2m.buf_at = 0,
                                                !.w2m.buf_len = 0]))

\* UniToWcIter::next of conv/linux.rs: WUnit(cp as u32 as i32)
linux_UniToWcIter_next(w) ==
    IF ~w.u2w.iter THEN Ret(w, NoneItem)
    ELSE SliceIter_next(w)

\* char::encode_utf16 (core): one unit below 0x10000, else a surrogate pair
encode_utf16(ch) ==
    IF ch < 65536 THEN <<ch>>
    ELSE <<55296 + ((ch - 65536) \div 1024), 56320 + ((ch - 65536) % 1024)>>

NoBuf == -1          \* UniToWcIter.buf = None

\* the second unit of a pair is not kept
TrailingUnit_Dropped(utf16) == NoBuf

\* utf16.get(1).map(|&u| WUnit(u))
TrailingUnit(utf16) == IF Len(utf16) >= 2 THEN utf16[2] ELSE NoBuf

\* UniToWcIter::next of conv/windows.rs
\* the match on e, what the source of UniToWcIter returned
windows_UniToWcPulled(e) ==
    IF IsNone(e.item) THEN Ret([e.w EXCEPT !.u2w.iter = FALSE], NoneItem)
    ELSE
    LET utf16 == encode_utf16(e.item.v) IN
    Ret([e.w EXCEPT !.u2w.buf = TrailingUnit(utf16)], OkItem(utf16[1]))

windows_UniToWcIter_next(w) ==
    IF w.u2w.buf # NoBuf
    THEN Ret([w EXCEPT !.u2w.buf = NoBuf], OkItem(w.u2w.buf))
    ELSE IF ~w.u2w.iter THEN Ret(w, NoneItem)
    ELSE windows_UniToWcPulled(SliceIter_next(w))

\* encoding::conv::os::UniToWcIter: the module of the host
os_UniToWcIter_next(w) ==
    IF host = "linux" THEN linux_UniToWcIter_next(w)
    ELSE windows_UniToWcIter_next(w)

NoTrap == NoneItem   \* the shared trap cell holds None

\* the match of LiftTrapErrIter::next on r, what the inner iterator returned
LiftTrapErrMatch(r) ==
    IF IsErr(r.item) THEN Ret([r.w EXCEPT !.lift.trap = r.item], NoneItem)
    ELSE r

\* LiftTrapErrIter::next over MbsToWcIter2
LiftTrapErrIter_next(w) == LiftTrapErrMatch(MbsToWcIter2_next(w))

\* next() of the iterator a WcToUniIter<It> reads from: the source slice,
\* LiftTrapErrIter<MbsToWcIter2<..>> or UniToWcIter<..>
Upstream_next(up, w) ==
    CASE up = "slice" -> SliceIter_next(w)
      [] up = "trap" -> LiftTrapErrIter_next(w)
      [] OTHER -> os_UniToWcIter_next(w)

\* lo <= (x as u32) <= hi for an i32 x and constants 0 <= lo <= hi < 2^31:
\* a negative x becomes a u32 of 2^31 or more, which lies above hi
InRangeU32(x, lo, hi) == x >= 0 /\ lo <= x /\ x <= hi

\* the arms of the match on cp in the UTF-32 WcToUniIter::next that keep cp
linux_WcToUniAccepts(cp) ==
    \/ InRangeU32(cp, 0, 196607)             \* 0x000000 ... 0x02FFFF
    \/ InRangeU32(cp, 917504, 1114111)       \* 0x0E0000 ... 0x10FFFF

\* the arms that reject: self.iter = None; Some(Err(InvalidAt(self.at)))
linux_WcToUniFail(w) ==
    Ret([w EXCEPT !.w2u.iter = FALSE], InvalidAt("WcToUniError", w.w2u.at))

\* WcToUniIter::next of conv/linux.rs over the upstream iterator up
linux_WcToUniMatch(e) ==
    IF IsNone(e.item) THEN Ret(e.w, NoneItem)
    ELSE IF linux_WcToUniAccepts(e.item.v)
         THEN Ret([e.w EXCEPT !.w2u.at = @ + 1], OkItem(e.item.v))
         ELSE linux_WcToUniFail(e.w)

linux_WcToUniIter_next(w, up) ==
    IF ~w.w2u.iter THEN Ret(w, NoneItem)
    ELSE linux_WcToUniMatch(Upstream_next(up, w))

AsU16(x) == x % 65536

\* self.iter = None; Some(Err(err)) in the UTF-16 WcToUniIter::next
windows_WcToUniFail(w, err) == Ret([w EXCEPT !.w2u.iter = FALSE], err)

RECURSIVE BitAnd(_, _)
BitAnd(a, b) ==
    IF a = 0 \/ b = 0 THEN 0
    ELSE ((a % 2) * (b % 2)) + (2 * BitAnd(a \div 2, b \div 2))

RECURSIVE BitOr(_, _)
BitOr(a, b) ==
    IF a = 0 THEN b
    ELSE IF b = 0 THEN a
    ELSE (IF a % 2 = 1 \/ b % 2 = 1 THEN 1 ELSE 0) + (2 * BitOr(a \div 2, b \div 2))

\* the pair decoded without the 0x10000 offset
DecodePair_NoBase(cu0, cu1) ==
    BitOr(BitAnd(cu0, 1023) * 1024, BitAnd(cu1, 1023))

\* let hi = cu0 & 0x3ff; let lo = cu1 & 0x3ff; 0x10000 + ((hi << 10) | lo)
DecodePair(cu0, cu1) ==
    65536 + BitOr(BitAnd(cu0, 1023) * 1024, BitAnd(cu1, 1023))

\* the range ending one unit early, at 0xdffe
IsLowSurrogate_Short(cu) == 56320 <= cu /\ cu <= 57342

\* the pattern 0xdc00 ... 0xdfff and the test 0xdc00 <= cu1 && cu1 <= 0xdfff
IsLowSurrogate(cu) == 56320 <= cu /\ cu <= 57343

\* match self.iter.as_mut() { Some(iter) => iter.next(), None => None }
windows_WcToUniPull(w, up) ==
    IF w.w2u.iter THEN Upstream_next(up, w) ELSE Ret(w, NoneItem)

\* WcToUniIter::next of conv/windows.rs over the upstream iterator up
\* the match on e1, the second pull, after the high surrogate cu0
windows_WcToUniSecond(cu0, e1) ==
    IF IsNone(e1.item)
    THEN windows_WcToUniFail(e1.w, Incomplete("WcToUniError"))
    ELSE
    LET cu1 == AsU16(e1.item.v) IN
    IF ~IsLowSurrogate(cu1)
    THEN windows_WcToUniFail(e1.w, InvalidAt("WcToUniError", e1.w.w2u.at))
    ELSE Ret([e1.w EXCEPT !.w2u.at = @ + 2], OkItem(DecodePair(cu0, cu1)))

\* the match on e0, the first pull
windows_WcToUniFirst(e0, up) ==
    IF IsNone(e0.item) THEN Ret(e0.w, NoneItem)
    ELSE
    LET cu0 == AsU16(e0.item.v) IN
    IF cu0 <= 55295 \/ (57344 <= cu0 /\ cu0 <= 65535)     \* ..0xd7ff | 0xe000..
    THEN Ret([e0.w EXCEPT !.w2u.at = @ + 1], OkItem(cu0))
    ELSE IF IsLowSurrogate(cu0)
    THEN windows_WcToUniFail(e0.w, InvalidAt("WcToUniError", e0.w.w2u.at))
    ELSE windows_WcToUniSecond(cu0, windows_WcToUniPull(e0.w, up))

windows_WcToUniIter_next(w, up) ==
    windows_WcToUniFirst(windows_WcToUniPull(w, up), up)

\* encoding::conv::os: the module of the host
os_WcToUniIter_next(w, up) ==
    IF host = "linux" THEN linux_WcToUniIter_next(w, up)
    ELSE windows_WcToUniIter_next(w, up)

\* From<MbsToWcError> and From<WcToUniError> for MbsToUniError
MbsToUniError_from(err) ==
    CASE err.tag = "InvalidAt" -> InvalidAt("MbsToUniError", err.v)
      [] err.tag = "Incomplete" -> Incomplete("MbsToUniError")
      [] OTHER -> OutOfBufferAt("MbsToUniError", err.v)

\* map_err: v.map_err(Into::into)
map_err(item) == IF IsErr(item) THEN MbsToUniError_from(item) ELSE item

\* iter::Map<WcToUniIter2<LiftTrapErrIter<..>>, map_err>::next
OverMap(r) == Ret(r.w, map_err(r.item))

\* encoding::conv::os::WcToUniIter2::next, a type mb_x_wc.rs imports and no
\* file of conv defines: the Wide->Validated Unicode transcoder of the host
\* (Multibyte->Validated Unicode is the composition of Multibyte->Wide and
\* Wide->Validated Unicode)
WcToUniIter2_next(w) == os_WcToUniIter_next(w, "trap")

Over_next(w) == OverMap(WcToUniIter2_next(w))

\* the trap is never looked at
LiftErrTake_Swallow(r) == r

\* if let Some(err) = self.trap.borrow_mut().take() in LiftErrIter::next,
\* where r is what the inner iterator returned
LiftErrTake(r) ==
    IF r.w.lift.trap # NoTrap
    THEN Ret([r.w EXCEPT !.lift.trap = NoTrap, !.lift.iter = FALSE],
             MbsToUniError_from(r.w.lift.trap))
    ELSE r

\* LiftErrIter::next
LiftErrIter_next(w) ==
    IF ~w.lift.iter THEN Ret(w, NoneItem)
    ELSE LiftErrTake(Over_next(w))

----------------------------------------------------------------------------
(* Sources *)

RECURSIVE Concats(_, _)
Concats(C, n) ==
    IF n = 0 THEN {<<>>}
    ELSE LET S == Concats(C, n - 1) IN S \cup {s \o c : s \in S, c \in C}

\* one shift unit short of MB_LEN_MAX shift units
ShiftPad == [i \in 1..(MB_LEN_MAX - 1) |-> SO]

\* multibyte chunks: NUL, 'g', U+00AA, U+30000, a unit that cannot lead,
\* two truncated sequences, a stray continuation unit
MbChunks ==
    IF locale = "utf8"
    THEN {<<0>>, <<103>>, <<194, 170>>, <<240, 176, 128, 128>>, <<255>>,
          <<194>>, <<240, 159>>, <<128>>}
    ELSE IF locale = "shift"
    THEN {<<0>>, <<103>>, <<SO>>, <<SI>>, <<200>>, ShiftPad}
    ELSE {<<0>>, <<103>>, <<170>>, <<231>>, <<128>>}

\* wide units for the stateful locale: NUL, 'g', full-width 'g', and one
\* the locale has no encoding for
ShiftWideChunks == {<<0>>, <<103>>, <<65351>>, <<200>>}

\* wide units: the ends of every range the decoders distinguish
WideChunks ==
    IF host = "linux"
    THEN {<<0>>, <<103>>, <<55295>>, <<55296>>, <<57343>>, <<57344>>,
          <<196607>>, <<196608>>, <<917503>>, <<917504>>, <<1114111>>,
          <<1114112>>, <<-1>>}
    ELSE {<<0>>, <<103>>, <<55295>>, <<55296>>, <<55357>>, <<56319>>,
          <<56320>>, <<56832>>, <<57343>>, <<57344>>, <<65535>>}

\* Unicode scalars (char)
UniChunks ==
    {<<0>>, <<103>>, <<55295>>, <<57344>>, <<65535>>, <<65536>>, <<128512>>,
     <<1114111>>}

\* "UniToWcToUni" is WcToUniIter over UniToWcIter (both are generic in It)
Pipes == {"MbsToWc", "WcsToMb", "WcToUni", "UniToWc", "MbsToUni",
          "UniToWcToUni"}

SourceChunks(p) ==
    CASE p \in {"MbsToWc", "MbsToUni"} -> MbChunks
      [] p = "WcsToMb" /\ locale = "shift" -> ShiftWideChunks
      [] p \in {"WcsToMb", "WcToUni"} -> WideChunks
      [] OTHER -> UniChunks

\* the locales a transcoder is run in on host h
Locales(h, p) ==
    IF h = "windows" THEN {"cp1252"}
    ELSE IF p \in {"MbsToWc", "MbsToUni", "WcsToMb"} THEN {"utf8", "shift"}
    ELSE {"utf8"}

----------------------------------------------------------------------------
(* The transcoders as a state machine: one action per next() *)

InitConv ==
    /\ host \in {"linux", "windows"}
    /\ pipe \in Pipes
    /\ locale \in Locales(host, pipe)
    /\ src \in Concats(SourceChunks(pipe), MaxChunks)
    /\ srcpos = 0
    /\ m2w = [iter |-> TRUE, at |-> 0, state |-> StateZero]
    /\ w2m = [iter |-> TRUE, at |-> 0, buf |-> [i \in 1..MB_LEN_MAX |-> 0],
              buf_at |-> 0, buf_len |-> 0, state |-> StateZero]
    /\ w2u = [iter |-> TRUE, at |-> 0]
    /\ u2w = [iter |-> TRUE, buf |-> NoBuf]
    /\ lift = [iter |-> TRUE, trap |-> NoTrap]
    /\ out = <<>>
    /\ pulls = <<>>

\* the effect of one call of next() that returned r
Call(r) ==
    /\ srcpos' = r.w.srcpos
    /\ m2w' = r.w.m2w
    /\ w2m' = r.w.w2m
    /\ w2u' = r.w.w2u
    /\ u2w' = r.w.u2w
    /\ lift' = r.w.lift
    /\ out' = Append(out, r.item)
    /\ pulls' = Append(pulls, srcpos)
    /\ UNCHANGED <<host, locale, pipe, src>>
    /\ UNCHANGED ownVars
    /\ UNCHANGED strVars
    /\ UNCHANGED auxVars

MbsToWcNext ==
    /\ pipe = "MbsToWc" /\ Len(out) < MaxCalls
    /\ Call(MbsToWcIter2_next(World))

WcsToMbNext ==
    /\ pipe = "WcsToMb" /\ Len(out) < MaxCalls
    /\ Call(WcsToMbIter_next(World))

WcToUniNext ==
    /\ pipe = "WcToUni" /\ Len(out) < MaxCalls
    /\ Call(os_WcToUniIter_next(World, "slice"))

UniToWcNext ==
    /\ pipe = "UniToWc" /\ Len(out) < MaxCalls
    /\ Call(os_UniToWcIter_next(World))

MbsToUniNext ==
    /\ pipe = "MbsToUni" /\ Len(out) < MaxCalls
    /\ Call(LiftErrIter_next(World))

UniToWcToUniNext ==
    /\ pipe = "UniToWcToUni" /\ Len(out) < MaxCalls
    /\ Call(os_WcToUniIter_next(World, "uni"))

NextConv ==
    \/ MbsToWcNext
    \/ WcsToMbNext
    \/ WcToUniNext
    \/ UniToWcNext
    \/ MbsToUniNext
    \/ UniToWcToUniNext

----------------------------------------------------------------------------
(* Owned strings: alloc/mod.rs, structure/mod.rs and sea.rs, for the       *)
(* MultiByte encoding (one byte per unit) and the Malloc allocator.        *)

NULL == 0                 \* ptr::null_mut(); the addresses in use are 1, 2, ..
OutOfBounds == -1         \* what a read outside its allocation finds (no unit)

UnitValues == {0, 97, 98}       \* MbUnit(0), MbUnit(b'a'), MbUnit(b'b')

size_of_Unit == 1         \* mem::size_of::<MbUnit>()
align_of_Unit == 1        \* mem::align_of::<MbUnit>()
align_of_usize == 8       \* mem::align_of::<usize>()
usize_MAX == 65535        \* usize is 16 bits wide here
NoUsize == -1             \* the None of checked_add and checked_mul

checked_add(a, b) == IF a > usize_MAX - b THEN NoUsize ELSE a + b

\* the multiplication that wraps
checked_mul_Wrapping(a, b) == (a * b) % (usize_MAX + 1)

checked_mul(a, b) == IF b # 0 /\ a > usize_MAX \div b THEN NoUsize ELSE a * b

\* libc::calloc(bytes, 1) when it does not return null: a zeroed allocation
calloc(h, bytes) ==
    Append(h, [cells |-> [i \in 1..(bytes \div size_of_Unit) |-> 0],
               live |-> TRUE, frees |-> 0])

libc_free(h, p) == [h EXCEPT ![p].live = FALSE, ![p].frees = @ + 1]

AllocResult(e, p, h) == [err |-> e, ptr |-> p, heap |-> h]

\* Malloc::alloc_bytes; ok tells whether calloc returns an allocation
Malloc_alloc_bytes(h, bytes, align, ok) ==
    IF align > align_of_usize THEN AllocResult("CannotAlign", NULL, h)
    ELSE IF ~ok THEN AllocResult("Failed", NULL, h)
    ELSE AllocResult("", Len(h) + 1, calloc(h, bytes))

\* the free that releases nothing
Malloc_free_Leak(h, p) == h

\* Malloc::free
Malloc_free(h, p) == IF p # NULL THEN libc_free(h, p) ELSE h

\* Structure::Owned: *mut () for ZeroTerm (len is not used), (*mut (), usize)
\* for Slice
Owned(p, len) == [ptr |-> p, len |-> len]

OwnedResult(e, o, h) == [err |-> e, owned |-> o, heap |-> h]

\* the terminator is never added
add_term_Never(u) == FALSE

\* the terminator is always added
add_term_Always(u) == TRUE

\* let add_term = !(units.len() > 0 && units[units.len()-1].is_zero())
add_term(u) == ~(Len(u) > 0 /\ u[Len(u)] = 0)

\* s[..units.len()].copy_from_slice(units); s[total_u-1] = E::Unit::zero()
ZeroTerm_store(cells, u) ==
    [i \in 1..Len(cells) |->
        IF i = Len(cells) THEN 0 ELSE IF i <= Len(u) THEN u[i] ELSE cells[i]]

\* the rest of ZeroTerm::alloc_owned once A::alloc_bytes returned a
ZeroTerm_filled(a, u) ==
    IF a.err # "" THEN OwnedResult(a.err, Owned(NULL, 0), a.heap)
    ELSE OwnedResult("", Owned(a.ptr, 0),
                     [a.heap EXCEPT ![a.ptr].cells = ZeroTerm_store(@, u)])

\* ZeroTerm::alloc_owned from the computation of total_b on
ZeroTerm_sized(h, u, total_u, ok) ==
    IF total_u = NoUsize \/ checked_mul(total_u, size_of_Unit) = NoUsize
    THEN OwnedResult("SizeOverflow", Owned(NULL, 0), h)
    ELSE ZeroTerm_filled(Malloc_alloc_bytes(h, checked_mul(total_u, size_of_Unit),
                                            align_of_Unit, ok), u)

ZeroTerm_alloc_owned(h, u, ok) ==
    ZeroTerm_sized(h, u, checked_add(Len(u), IF add_term(u) THEN 1 ELSE 0), ok)

\* the rest of Slice::alloc_owned once A::alloc_bytes returned a
Slice_filled(a, u) ==
    IF a.err # "" THEN OwnedResult(a.err, Owned(NULL, 0), a.heap)
    ELSE OwnedResult("", Owned(a.ptr, Len(u)),
                     [a.heap EXCEPT ![a.ptr].cells = u])

Slice_alloc_owned(h, u, ok) ==
    IF checked_mul(Len(u), size_of_Unit) = NoUsize
    THEN OwnedResult("SizeOverflow", Owned(NULL, 0), h)
    ELSE Slice_filled(Malloc_alloc_bytes(h, checked_mul(Len(u), size_of_Unit),
                                         align_of_Unit, ok), u)

\* total_u in S::alloc_owned for len units, the last of them zero or not
alloc_total_u(s, len, last_zero) ==
    IF s = "ZeroTerm"
    THEN checked_add(len, IF ~(len > 0 /\ last_zero) THEN 1 ELSE 0)
    ELSE len

\* total_b in S::alloc_owned
alloc_total_b(total_u, unit_b) ==
    IF total_u = NoUsize THEN NoUsize ELSE checked_mul(total_u, unit_b)

\* S::alloc_owned up to the return of A::alloc_bytes(total_b, ..): the error,
\* whether the allocator was called, and the byte count it was given
alloc_sized(total_b, ok) ==
    IF total_b = NoUsize THEN [err |-> "SizeOverflow", called |-> FALSE, bytes |-> 0]
    ELSE [err |-> IF ok THEN "" ELSE "Failed", called |-> TRUE, bytes |-> total_b]

\* while !(*cur).is_zero() { len += 1; cur = cur.offset(1); } with cur at
\* cells[i]; a scan that finds no zero unit stops where the allocation ends
RECURSIVE ScanToZero(_, _, _)
ScanToZero(cells, i, len) ==
    IF i > Len(cells) THEN len
    ELSE IF cells[i] = 0 THEN len
    ELSE ScanToZero(cells, i + 1, len + 1)

\* slice::from_raw_parts(ptr, len) over the allocation holding cells
from_raw_parts(cells, len) ==
    [i \in 1..len |-> IF i <= Len(cells) THEN cells[i] ELSE OutOfBounds]

ZeroTerm_slice_units(cells) == from_raw_parts(cells, ScanToZero(cells, 1, 0))

\* the mutable slice with the terminator in it
ZeroTerm_slice_units_mut_WithTerm(cells) == ScanToZero(cells, 1, 1)

\* the length of the slice ZeroTerm::slice_units_mut returns
ZeroTerm_slice_units_mut(cells) == ScanToZero(cells, 1, 0)

ZeroTerm_slice_units_with_term(cells) ==
    from_raw_parts(cells, ScanToZero(cells, 1, 1))

\* the slice read as ending at its first zero unit
Slice_slice_units_ToZero(cells, len) == ZeroTerm_slice_units(cells)

\* Slice::borrow_from_owned and Slice::slice_units
Slice_slice_units(cells, len) == from_raw_parts(cells, len)

TransferResult(p, o) == [ret |-> p, owned |-> o]

ZeroTerm_into_ffi_ptr(o) == TransferResult(Owned(o.ptr, 0), Owned(NULL, 0))

\* the length read after the owned pair was cleared
Slice_into_ffi_ptr_LenLost(o) == TransferResult(Owned(o.ptr, 0), Owned(NULL, 0))

Slice_into_ffi_ptr(o) == TransferResult(Owned(o.ptr, o.len), Owned(NULL, 0))

OptionOwned(some, o) == [some |-> some, owned |-> o]

ZeroTerm_owned_from_ffi_ptr(p) ==
    IF p.ptr = NULL THEN OptionOwned(FALSE, Owned(NULL, 0))
    ELSE OptionOwned(TRUE, Owned(p.ptr, 0))

Slice_owned_from_ffi_ptr(p) ==
    IF p.ptr = NULL THEN OptionOwned(FALSE, Owned(NULL, 0))
    ELSE OptionOwned(TRUE, Owned(p.ptr, p.len))

\* ZeroTerm::free_owned and Slice::free_owned
free_owned(h, o) == Malloc_free(h, o.ptr)

\* SeStr::as_units on the string that o owns
as_units(s, h, o) ==
    IF s = "ZeroTerm" THEN ZeroTerm_slice_units(h[o.ptr].cells)
    ELSE Slice_slice_units(h[o.ptr].cells, o.len)

\* SeStr::as_units_with_term on the string that o owns
as_units_with_term(h, o) == ZeroTerm_slice_units_with_term(h[o.ptr].cells)

\* the length of SeStr::as_units_mut on the string that o owns
as_units_mut(s, h, o) ==
    IF s = "ZeroTerm" THEN ZeroTerm_slice_units_mut(h[o.ptr].cells)
    ELSE o.len

SeaString_new(s, h, u, ok) ==
    IF s = "ZeroTerm" THEN ZeroTerm_alloc_owned(h, u, ok)
    ELSE Slice_alloc_owned(h, u, ok)

\* S::into_ffi_ptr(&mut self.owned) in SeaString::into_ptr
SeaString_into_ffi_ptr(s, o) ==
    IF s = "ZeroTerm" THEN ZeroTerm_into_ffi_ptr(o) ELSE Slice_into_ffi_ptr(o)

\* mem::forget(self): the destructor of the value is not run
mem_forget(h, o) == h

\* S::owned_from_ffi_ptr(ptr) in SeaString::from_ptr
SeaString_owned_from_ffi_ptr(s, p) ==
    IF s = "ZeroTerm" THEN ZeroTerm_owned_from_ffi_ptr(p)
    ELSE Slice_owned_from_ffi_ptr(p)

\* Drop for SeaString
SeaString_drop(h, o) == free_owned(h, o)

\* the null check left out
SeStr_from_ptr_NoNullCheck(s, p) ==
    OptionOwned(TRUE, IF s = "ZeroTerm" THEN Owned(p.ptr, 0) ELSE p)

\* SeStr::from_ptr and SeStr::from_ptr_mut: S::borrow_from_ffi_ptr(ptr) and
\* S::borrow_from_ffi_ptr_mut(ptr), for ZeroTerm and for Slice
SeStr_from_ptr(s, p) ==
    IF p.ptr = NULL THEN OptionOwned(FALSE, Owned(NULL, 0))
    ELSE OptionOwned(TRUE, IF s = "ZeroTerm" THEN Owned(p.ptr, 0) ELSE p)

\* S::borrow_from_owned(&self.owned) in Deref for SeaString
borrow_from_owned(s, o) == IF s = "ZeroTerm" THEN Owned(o.ptr, 0) ELSE o

\* the length left out of the pointer
SeStr_as_ptr_NoLen(s, ref) == Owned(ref.ptr, 0)

\* SeStr::as_ptr: S::as_ffi_ptr(&self.data)
SeStr_as_ptr(s, ref) == IF s = "ZeroTerm" THEN Owned(ref.ptr, 0) ELSE ref

\* E::static_zeroes(): two zero units in static memory
static_zeroes == <<0, 0>>

\* the static memory the default strings point into: static_zeroes, and the
\* empty slice &[]
static_mem == <<[cells |-> static_zeroes], [cells |-> <<>>]>>

\* the ZeroTerm default pointing at the empty slice
StructureDefault_Empty(s) == Owned(2, 0)

\* ZeroTerm::default(): E::static_zeroes().as_ptr(); Slice::default(): &[]
StructureDefault(s) == IF s = "ZeroTerm" THEN Owned(1, 0) ELSE Owned(2, 0)

\* SeStr::to_owned_by on the string ref in memory m: SeaString::new(self.as_units())
SeStr_to_owned_by(s, m, ref, h, ok) == SeaString_new(s, h, as_units(s, m, ref), ok)

\* the clone that shares the allocation of its source
SeaString_clone_Shared(s, h, o, ok) == OwnedResult("", o, h)

\* Clone for SeaString: SeaString::new(self.as_units()), and to_owned_by on
\* the string borrowed from o
SeaString_clone(s, h, o, ok) ==
    SeStr_to_owned_by(s, h, borrow_from_owned(s, o), h, ok)

\* Default for SeaString: <&SeStr>::default().to_owned_by::<A>()
SeaString_default(s, h, ok) ==
    SeStr_to_owned_by(s, static_mem, StructureDefault(s), h, ok)

\* SeStr::as_slice: SeStr::new(self.as_units()), a slice over the same memory
SeStr_as_slice(s, h, ref) == Owned(ref.ptr, Len(as_units(s, h, ref)))

----------------------------------------------------------------------------
(* Views, clones, size computations and blocks that are not in play *)

NoView == [arg |-> Owned(NULL, 0), some |-> FALSE, ref |-> Owned(NULL, 0)]

NoCopy == [state |-> "none", o |-> Owned(NULL, 0), at |-> <<>>]

NoSize == [done |-> FALSE, s |-> "Slice", len |-> 0, last_zero |-> FALSE,
           unit_b |-> size_of_Unit, r |-> alloc_sized(0, TRUE)]

NoBlock == [state |-> "none", variant |-> "nightly", bytes |-> 0, align |-> 1,
            err |-> "", size |-> 0, unit |-> 1, mem |-> <<>>, user |-> 0,
            freed |-> [start |-> 0, count |-> <<>>, unit |-> 1]]

AuxIdle ==
    /\ view = NoView
    /\ copy = NoCopy
    /\ sz = NoSize
    /\ blk = NoBlock

----------------------------------------------------------------------------
(* The life cycle of one owned string: one action per operation on it *)

\* the unit sequences of at most n units
UnitSeqs(n) == UNION {[1..k -> UnitValues] : k \in 0..n}

InitOwned ==
    /\ structure \in {"ZeroTerm", "Slice"}
    /\ units \in UnitSeqs(MaxLen)
    /\ heap = <<>>
    /\ life = "init"
    /\ owned = Owned(NULL, 0)
    /\ fptr = Owned(NULL, 0)
    /\ before = <<>>
    /\ last = ""
    /\ new_err = ""
    /\ transfers = 0
    /\ writes = 0
    /\ held = 0

\* no owned string is in play
OwnedIdle ==
    /\ structure = "ZeroTerm"
    /\ units = <<>>
    /\ heap = <<>>
    /\ life = "idle"
    /\ owned = Owned(NULL, 0)
    /\ fptr = Owned(NULL, 0)
    /\ before = <<>>
    /\ last = ""
    /\ new_err = ""
    /\ transfers = 0
    /\ writes = 0
    /\ held = 0

\* no transcoder is in play
ConvIdle ==
    /\ host = "linux"
    /\ locale = "utf8"
    /\ pipe = ""
    /\ src = <<>>
    /\ srcpos = 0
    /\ m2w = [iter |-> TRUE, at |-> 0, state |-> StateZero]
    /\ w2m = [iter |-> TRUE, at |-> 0, buf |-> [i \in 1..MB_LEN_MAX |-> 0],
              buf_at |-> 0, buf_len |-> 0, state |-> StateZero]
    /\ w2u = [iter |-> TRUE, at |-> 0]
    /\ u2w = [iter |-> TRUE, buf |-> NoBuf]
    /\ lift = [iter |-> TRUE, trap |-> NoTrap]
    /\ out = <<>>
    /\ pulls = <<>>

\* SeaString::new(units) returned r
NewDone(r) ==
    /\ heap' = r.heap
    /\ owned' = r.owned
    /\ new_err' = r.err
    /\ life' = IF r.err = "" THEN "owned" ELSE "failed"
    /\ last' = "new"
    /\ held' = 0
    /\ UNCHANGED <<structure, units, fptr, before, transfers, writes>>

New ==
    /\ life = "init"
    /\ \E ok \in BOOLEAN : NewDone(SeaString_new(structure, heap, units, ok))
    /\ UNCHANGED convVars
    /\ UNCHANGED strVars
    /\ UNCHANGED auxVars

\* SeaString::into_ptr, with r what S::into_ffi_ptr returned
IntoPtrDone(r) ==
    /\ fptr' = r.ret
    /\ owned' = r.owned
    /\ heap' = mem_forget(heap, r.owned)
    /\ life' = "foreign"
    /\ before' = as_units(structure, heap, owned)
    /\ transfers' = transfers + 1
    /\ last' = "into_ptr"
    /\ held' = 0
    /\ UNCHANGED <<structure, units, new_err, writes>>

IntoPtr ==
    /\ life = "owned" /\ transfers < MaxTransfers
    /\ IntoPtrDone(SeaString_into_ffi_ptr(structure, owned))
    /\ UNCHANGED convVars
    /\ UNCHANGED strVars
    /\ UNCHANGED auxVars

\* SeaString::from_ptr(fptr), with r what S::owned_from_ffi_ptr returned
FromPtrDone(r) ==
    /\ owned' = r.owned
    /\ life' = IF r.some THEN "owned" ELSE "none"
    /\ last' = "from_ptr"
    /\ held' = 0
    /\ UNCHANGED <<structure, units, heap, fptr, before, new_err, transfers, writes>>

\* from_ptr is called once on the pointer into_ptr returned
FromPtr ==
    /\ life = "foreign"
    /\ FromPtrDone(SeaString_owned_from_ffi_ptr(structure, fptr))
    /\ UNCHANGED convVars
    /\ UNCHANGED strVars
    /\ UNCHANGED auxVars

\* the owned string goes out of scope
Drop ==
    /\ life = "owned"
    /\ heap' = SeaString_drop(heap, owned)
    /\ life' = "dropped"
    /\ last' = "drop"
    /\ held' = 0
    /\ UNCHANGED <<structure, units, owned, fptr, before, new_err, transfers, writes>>
    /\ UNCHANGED convVars
    /\ UNCHANGED strVars
    /\ UNCHANGED auxVars

\* let s = as_units_mut() (as_units_mut_unsafe() for ZeroTerm): the caller
\* holds the slice until the next operation on the string
AsUnitsMut ==
    /\ life = "owned"
    /\ held' = as_units_mut(structure, heap, owned)
    /\ last' = "as_units_mut"
    /\ UNCHANGED <<structure, units, heap, life, owned, fptr, before, new_err,
                   transfers, writes>>
    /\ UNCHANGED convVars
    /\ UNCHANGED strVars
    /\ UNCHANGED auxVars

\* s[i - 1] = x through the slice held
Write ==
    /\ life = "owned" /\ writes < MaxWrites
    /\ \E i \in 1..Min(held, Len(heap[owned.ptr].cells)), x \in UnitValues :
          heap' = [heap EXCEPT ![owned.ptr].cells[i] = x]
    /\ writes' = writes + 1
    /\ last' = "write"
    /\ UNCHANGED <<structure, units, life, owned, fptr, before, new_err,
                   transfers, held>>
    /\ UNCHANGED convVars
    /\ UNCHANGED strVars
    /\ UNCHANGED auxVars

\* the foreign pointers a caller may hand to SeStr::from_ptr: null ones, the
\* pointer of the owned string, and one into memory that is not mapped
ForeignPtrs ==
    {Owned(NULL, 0), Owned(Len(heap) + 1, 0)}
        \cup (IF structure = "Slice"
              THEN {Owned(NULL, 2), Owned(Len(heap) + 1, 2)} ELSE {})
        \cup (IF life = "owned"
              THEN {SeStr_as_ptr(structure, borrow_from_owned(structure, owned))}
              ELSE {})

\* SeaString::from_ptr(p) on a null pointer p returned r
FromNullPtrDone(p, r) ==
    /\ fptr' = p
    /\ owned' = r.owned
    /\ life' = IF r.some THEN "owned" ELSE "none"
    /\ last' = "from_null_ptr"
    /\ held' = 0
    /\ UNCHANGED <<structure, units, heap, before, new_err, transfers, writes>>

\* SeaString::from_ptr on a null pointer (with any length, for Slice), before
\* any string was made
FromNullPtr ==
    /\ life = "init"
    /\ \E p \in {q \in ForeignPtrs : q.ptr = NULL} :
          FromNullPtrDone(p, SeaString_owned_from_ffi_ptr(structure, p))
    /\ UNCHANGED convVars
    /\ UNCHANGED strVars
    /\ UNCHANGED auxVars

\* SeStr::from_ptr(p) returned r
BorrowFromPtrDone(p, r) ==
    view' = [arg |-> p, some |-> r.some, ref |-> r.owned]

\* let v = SeStr::from_ptr(p) (or from_ptr_mut)
BorrowFromPtr ==
    /\ life = "init" \/ life = "owned"
    /\ \E p \in ForeignPtrs : BorrowFromPtrDone(p, SeStr_from_ptr(structure, p))
    /\ last' = "borrow_from_ptr"
    /\ held' = 0
    /\ UNCHANGED <<structure, units, heap, life, owned, fptr, before, new_err,
                   transfers, writes>>
    /\ UNCHANGED convVars
    /\ UNCHANGED strVars
    /\ UNCHANGED <<copy, sz, blk>>

\* let v = x.as_slice() on the owned string x (through Deref)
AsSlice ==
    /\ life = "owned"
    /\ view' = [arg |-> SeStr_as_ptr(structure, borrow_from_owned(structure, owned)),
                some |-> TRUE,
                ref |-> SeStr_as_slice(structure, heap,
                                       borrow_from_owned(structure, owned))]
    /\ last' = "as_slice"
    /\ held' = 0
    /\ UNCHANGED <<structure, units, heap, life, owned, fptr, before, new_err,
                   transfers, writes>>
    /\ UNCHANGED convVars
    /\ UNCHANGED strVars
    /\ UNCHANGED <<copy, sz, blk>>

\* SeaString::default() returned r, or panicked in expect() on its error
DefaultDone(r) ==
    /\ heap' = r.heap
    /\ owned' = r.owned
    /\ new_err' = r.err
    /\ life' = IF r.err = "" THEN "owned" ELSE "failed"
    /\ last' = "default"
    /\ held' = 0
    /\ UNCHANGED <<structure, units, fptr, before, transfers, writes>>

\* let x: SeaString = Default::default(), by way of the default borrowed
\* string; units are the units x is made of
Default ==
    /\ life = "init"
    /\ units = as_units(structure, static_mem, StructureDefault(structure))
    /\ view' = [arg |-> StructureDefault(structure), some |-> TRUE,
                ref |-> StructureDefault(structure)]
    /\ \E ok \in BOOLEAN : DefaultDone(SeaString_default(structure, heap, ok))
    /\ UNCHANGED convVars
    /\ UNCHANGED strVars
    /\ UNCHANGED <<copy, sz, blk>>

\* x.clone() or x.to_owned_by() returned r; clone panics in expect() on an
\* error, to_owned_by returns it
CloneDone(via, r) ==
    /\ heap' = r.heap
    /\ copy' = [state |-> IF r.err = "" THEN "live"
                          ELSE IF via = "clone" THEN "panicked" ELSE "failed",
                o |-> r.owned,
                at |-> as_units(structure, heap, owned)]
    /\ last' = via

\* let y = x.clone(), or let y = x.to_owned_by::<A>()
Clone ==
    /\ life = "owned" /\ copy.state = "none"
    /\ \E via \in {"clone", "to_owned_by"}, ok \in BOOLEAN :
          CloneDone(via, SeaString_clone(structure, heap, owned, ok))
    /\ held' = 0
    /\ UNCHANGED <<structure, units, life, owned, fptr, before, new_err,
                   transfers, writes>>
    /\ UNCHANGED convVars
    /\ UNCHANGED strVars
    /\ UNCHANGED <<view, sz, blk>>

\* the copy goes out of scope
DropCopy ==
    /\ copy.state = "live"
    /\ heap' = SeaString_drop(heap, copy.o)
    /\ copy' = [copy EXCEPT !.state = "dropped"]
    /\ last' = "drop_copy"
    /\ held' = 0
    /\ UNCHANGED <<structure, units, life, owned, fptr, before, new_err,
                   transfers, writes>>
    /\ UNCHANGED convVars
    /\ UNCHANGED strVars
    /\ UNCHANGED <<view, sz, blk>>

\* y.as_units_mut()[i - 1] = x on the copy y
WriteCopy ==
    /\ copy.state = "live" /\ writes < MaxWrites
    /\ \E i \in 1..as_units_mut(structure, heap, copy.o), x \in UnitValues :
          heap' = [heap EXCEPT ![copy.o.ptr].cells[i] = x]
    /\ writes' = writes + 1
    /\ last' = "write_copy"
    /\ held' = 0
    /\ UNCHANGED <<structure, units, life, owned, fptr, before, new_err, transfers>>
    /\ UNCHANGED convVars
    /\ UNCHANGED strVars
    /\ UNCHANGED auxVars

NextClone ==
    \/ New
    \/ Clone
    \/ AsUnitsMut
    \/ Write
    \/ WriteCopy
    \/ Drop
    \/ DropCopy

NextOwned ==
    \/ New
    \/ FromNullPtr
    \/ Default
    \/ BorrowFromPtr
    \/ AsSlice
    \/ IntoPtr
    \/ FromPtr
    \/ Drop
    \/ AsUnitsMut
    \/ Write

----------------------------------------------------------------------------
(* Comparisons (sea.rs): every implementation compares as_units() of the   *)
(* two strings as slices.                                                  *)

\* Ord for a unit: self.0.cmp(&other.0)
Unit_cmp(x, y) == IF x < y THEN "Less" ELSE IF x > y THEN "Greater" ELSE "Equal"

\* <[T] as Ord>::cmp from element i on: the common elements in order, then
\* the lengths
RECURSIVE slice_cmp(_, _, _)
slice_cmp(a, b, i) ==
    IF i > Len(a) \/ i > Len(b) THEN Unit_cmp(Len(a), Len(b))
    ELSE IF Unit_cmp(a[i], b[i]) # "Equal" THEN Unit_cmp(a[i], b[i])
    ELSE slice_cmp(a, b, i + 1)

\* <[T] as PartialEq>::eq on the two as_units(): the lengths, then the
\* elements
SeStr_eq(a, b) == Len(a) = Len(b) /\ \A i \in 1..Len(a) : a[i] = b[i]

\* the operands taken in the other order
SeStr_partial_cmp_Swapped(a, b) == slice_cmp(b, a, 1)

\* <[T] as PartialOrd>::partial_cmp is Some(cmp) for units that are Ord
SeStr_partial_cmp(a, b) == slice_cmp(a, b, 1)

SeStr_cmp(a, b) == slice_cmp(a, b, 1)

\* the comparisons of a with b and of b with a
Cmps(a, b) ==
    [done |-> TRUE,
     eq |-> SeStr_eq(a, b), partial_cmp |-> SeStr_partial_cmp(a, b),
     cmp |-> SeStr_cmp(a, b),
     req |-> SeStr_eq(b, a), rpartial_cmp |-> SeStr_partial_cmp(b, a),
     rcmp |-> SeStr_cmp(b, a)]

NoCmps == [done |-> FALSE, eq |-> FALSE, partial_cmp |-> "", cmp |-> "",
           req |-> FALSE, rpartial_cmp |-> "", rcmp |-> ""]

\* no comparison is in play
CmpIdle ==
    /\ other = [s |-> "Slice", u |-> <<>>,
                r |-> OwnedResult("", Owned(NULL, 0), <<>>)]
    /\ cmps = NoCmps

\* the owned string and other are compared, in both orders
Compare ==
    /\ life = "owned" /\ ~cmps.done
    /\ cmps' = Cmps(as_units(structure, heap, owned),
                    as_units(other.s, other.r.heap, other.r.owned))
    /\ last' = "compare"
    /\ UNCHANGED <<structure, units, heap, life, owned, fptr, before, new_err,
                   transfers, writes, held>>
    /\ UNCHANGED convVars
    /\ UNCHANGED <<stages, t_err, other>>
    /\ UNCHANGED auxVars

NextCmp ==
    \/ New
    \/ Compare

----------------------------------------------------------------------------
(* Whole-string operations of a borrowed string (sea.rs): the transcoder   *)
(* is created over as_units() and run to its end within the operation.    *)

MaxStages == 3      \* at most MaxStages strings are borrowed in a run

\* the transcoders that are TranscodeTo implementations
TranscodePipes == {"MbsToWc", "MbsToUni", "WcsToMb", "WcToUni", "UniToWc"}

\* the encoding a transcoder reads and the encoding it writes
SourceEncoding(p) ==
    CASE p \in {"MbsToWc", "MbsToUni"} -> "MultiByte"
      [] p \in {"WcsToMb", "WcToUni"} -> "Wide"
      [] OTHER -> "CheckedUnicode"

TargetEncoding(p) ==
    CASE p = "WcsToMb" -> "MultiByte"
      [] p \in {"MbsToWc", "UniToWc"} -> "Wide"
      [] OTHER -> "CheckedUnicode"

\* next() of <&[MbUnit] as TranscodeTo<WUnit>>::Iter and of
\* <&[MbUnit] as TranscodeTo<char>>::Iter
MbUnit_transcode_next(p, w) ==
    IF p = "MbsToWc" THEN MbsToWcIter2_next(w) ELSE LiftErrIter_next(w)

\* next() of the iterator self.as_units().transcode() returns; for slices
\* of wide units and of scalars, the host's transcoders of these encodings
transcode_next(p, w) ==
    CASE SourceEncoding(p) = "MultiByte" -> MbUnit_transcode_next(p, w)
      [] p = "WcsToMb" -> WcsToMbIter_next(w)
      [] p = "WcToUni" -> os_WcToUniIter_next(w, "slice")
      [] OTHER -> os_UniToWcIter_next(w)

\* TrapErrIter { iter, trap } under Utf8EncodeIter { buf, off, len }; trap
\* holds None for Ok(())
Utf8Trap0 == [iter |-> TRUE, trap |-> NoneItem,
              buf |-> [i \in 1..4 |-> 0], off |-> 0, len |-> 0]

Ret3(w, e, item) == [w |-> w, e |-> e, item |-> item]

\* the error is dropped and the trap left at Ok(())
TrapErrMatch_Lost(e, r) ==
    IF IsOk(r.item) THEN Ret3(r.w, e, r.item)
    ELSE Ret3(r.w, [e EXCEPT !.iter = FALSE], NoneItem)

\* the match of TrapErrIter::next on r, what the inner iterator returned
TrapErrMatch(e, r) ==
    IF IsOk(r.item) THEN Ret3(r.w, e, r.item)
    ELSE Ret3(r.w, [e EXCEPT !.iter = FALSE,
                             !.trap = IF IsErr(r.item) THEN r.item
                                      ELSE NoneItem],
              NoneItem)

TrapErrIter_next(p, w, e) ==
    IF ~e.iter THEN Ret3(w, e, NoneItem)
    ELSE TrapErrMatch(e, transcode_next(p, w))

\* let cu = self.buf[self.off as usize]; self.off += 1; Some(cu)
Utf8Emit(w, e) == Ret3(w, [e EXCEPT !.off = @ + 1], OkItem(e.buf[e.off + 1]))

\* Utf8EncodeIter::next once self.iter.next() returned r
Utf8Pulled(r) ==
    IF IsNone(r.item) THEN r
    ELSE Utf8Emit(r.w, [r.e EXCEPT !.buf = WriteBuf(@, Utf8Encode(r.item.v)),
                                   !.off = 0,
                                   !.len = Len(Utf8Encode(r.item.v))])

Utf8EncodeIter_next(p, w, e) ==
    IF e.len - e.off = 0 THEN Utf8Pulled(TrapErrIter_next(p, w, e))
    ELSE Utf8Emit(w, e)

\* collect::<Vec<_>>() over Utf8EncodeIter
RECURSIVE Utf8Collect(_, _, _, _)
Utf8Collected(p, r, acc) ==
    IF IsNone(r.item) THEN [trap |-> r.e.trap, units |-> acc]
    ELSE Utf8Collect(p, r.w, r.e, Append(acc, r.item.v))

Utf8Collect(p, w, e, acc) == Utf8Collected(p, Utf8EncodeIter_next(p, w, e), acc)

StrResult(ok, s, err) == [ok |-> ok, s |-> s, err |-> err]
NoStr == StrResult(FALSE, <<>>, NoneItem)    \* into_string was not called

\* let () = err?; Ok(String::from_utf8_unchecked(units))
IntoStringResult(c) ==
    IF IsErr(c.trap) THEN StrResult(FALSE, <<>>, c.trap)
    ELSE StrResult(TRUE, c.units, NoneItem)

\* SeStr::into_string, with p the transcoder to Validated Unicode
SeStr_into_string(p, w) == IntoStringResult(Utf8Collect(p, w, Utf8Trap0, <<>>))

\* collect::<Result<Vec<_>, _>>() over the transcoder
RECURSIVE ResultCollect(_, _, _)
ResultCollected(p, r, acc) ==
    IF IsNone(r.item) THEN [err |-> NoneItem, units |-> acc]
    ELSE IF IsErr(r.item) THEN [err |-> r.item, units |-> <<>>]
    ELSE ResultCollect(p, r.w, Append(acc, r.item.v))

ResultCollect(p, w, acc) == ResultCollected(p, transcode_next(p, w), acc)

\* let units = units?; Ok(SeaString::new(&units[..])?)
TranscodeToNew(c, s, h, ok) ==
    IF IsErr(c.err)
    THEN [t_err |-> c.err, new |-> OwnedResult("", Owned(NULL, 0), h)]
    ELSE [t_err |-> NoneItem, new |-> SeaString_new(s, h, c.units, ok)]

\* SeStr::transcode_to::<s, F, Malloc> with p the transcoder to F
SeStr_transcode_to(p, w, s, h, ok) ==
    TranscodeToNew(ResultCollect(p, w, <<>>), s, h, ok)

----------------------------------------------------------------------------
(* A borrowed string, what it is transcoded to, and that borrowed in turn *)

\* no whole-string operation is in play
StrIdle ==
    /\ stages = <<>>
    /\ t_err = NoneItem
    /\ CmpIdle

\* the transcoder to Validated Unicode of the string borrowed last
ToUni == IF SourceEncoding(pipe) = "MultiByte" THEN "MbsToUni" ELSE "WcToUni"

\* s.into_string() on the string borrowed last
IntoString ==
    /\ life = "init"
    /\ SourceEncoding(pipe) # "CheckedUnicode"
    /\ ~stages[Len(stages)].called
    /\ stages' = [stages EXCEPT ![Len(stages)].str = SeStr_into_string(ToUni, World),
                                ![Len(stages)].called = TRUE]
    /\ UNCHANGED convVars
    /\ UNCHANGED ownVars
    /\ UNCHANGED <<t_err, other, cmps>>
    /\ UNCHANGED auxVars

\* s.transcode_to() returned r
TranscodeToDone(r) ==
    /\ t_err' = r.t_err
    /\ heap' = r.new.heap
    /\ owned' = r.new.owned
    /\ new_err' = r.new.err
    /\ life' = IF r.t_err = NoneItem /\ r.new.err = "" THEN "owned" ELSE "failed"
    /\ last' = "transcode_to"
    /\ UNCHANGED <<structure, units, fptr, before, transfers, writes, held>>

\* s.transcode_to::<structure, F, Malloc>() on the string borrowed last
TranscodeTo ==
    /\ life = "init"
    /\ \E ok \in BOOLEAN :
          TranscodeToDone(SeStr_transcode_to(pipe, World, structure, heap, ok))
    /\ UNCHANGED convVars
    /\ UNCHANGED <<stages, other, cmps>>
    /\ UNCHANGED auxVars

\* the owned string transcode_to returned is borrowed (Deref for SeaString)
\* and is the source of the next operations
Borrow ==
    /\ life = "owned" /\ Len(stages) < MaxStages
    /\ src' = as_units(structure, heap, owned)
    /\ pipe' \in {p \in TranscodePipes : SourceEncoding(p) = TargetEncoding(pipe)}
    /\ stages' = Append(stages, [enc |-> TargetEncoding(pipe),
                                 units |-> as_units(structure, heap, owned),
                                 str |-> NoStr, called |-> FALSE])
    /\ life' = "init"
    /\ last' = "borrow"
    /\ UNCHANGED <<host, locale, srcpos, m2w, w2m, w2u, u2w, lift, out, pulls>>
    /\ UNCHANGED <<structure, units, heap, owned, fptr, before, new_err,
                   transfers, writes, held>>
    /\ UNCHANGED <<t_err, other, cmps>>
    /\ UNCHANGED auxVars

NextStr ==
    \/ IntoString
    \/ TranscodeTo
    \/ Borrow

----------------------------------------------------------------------------
(* The specifications *)

vars == <<convVars, ownVars, strVars, auxVars>>

Init == InitConv /\ OwnedIdle /\ StrIdle /\ AuxIdle

Next == NextConv

Spec == Init /\ [][Next]_vars

InitOwnedSpec == ConvIdle /\ InitOwned /\ StrIdle /\ AuxIdle

SpecOwned == InitOwnedSpec /\ [][NextOwned]_vars

SpecClone == InitOwnedSpec /\ [][NextClone]_vars

InitStr ==
    /\ InitConv
    /\ pipe \in TranscodePipes
    /\ InitOwned
    /\ units = <<>>
    /\ stages = <<[enc |-> SourceEncoding(pipe), units |-> src,
                    str |-> NoStr, called |-> FALSE]>>
    /\ t_err = NoneItem
    /\ CmpIdle
    /\ AuxIdle

SpecStr == InitStr /\ [][NextStr]_vars

InitCmp ==
    /\ ConvIdle
    /\ InitOwned
    /\ stages = <<>>
    /\ t_err = NoneItem
    /\ \E T \in {"ZeroTerm", "Slice"}, u \in UnitSeqs(MaxLen) :
          other = [s |-> T, u |-> u, r |-> SeaString_new(T, <<>>, u, TRUE)]
    /\ cmps = NoCmps
    /\ AuxIdle

SpecCmp == InitCmp /\ [][NextCmp]_vars

\* size_of::<E::Unit>() of c_char, of a 16-bit and of a 32-bit wchar_t
UnitSizes == {1, 2, 4}

\* the unit counts alloc_owned is given: small ones, and the ones around the
\* largest count that fits for each unit size
SizeLens ==
    {0, 1, 2, 3} \cup
    UNION {{n \in {usize_MAX \div b - 1, usize_MAX \div b, usize_MAX \div b + 1} :
                n <= usize_MAX} : b \in UnitSizes}

\* S::alloc_owned(units) computes its sizes
AllocSize ==
    /\ ~sz.done
    /\ \E ok \in BOOLEAN :
          sz' = [sz EXCEPT !.done = TRUE,
                           !.r = alloc_sized(
                               alloc_total_b(alloc_total_u(sz.s, sz.len, sz.last_zero),
                                             sz.unit_b), ok)]
    /\ UNCHANGED <<convVars, ownVars, strVars, view, copy, blk>>

NextSize == AllocSize

InitSize ==
    /\ ConvIdle /\ OwnedIdle /\ StrIdle
    /\ view = NoView /\ copy = NoCopy /\ blk = NoBlock
    /\ \E s \in {"ZeroTerm", "Slice"}, len \in SizeLens, z \in BOOLEAN,
          b \in UnitSizes :
          sz = [NoSize EXCEPT !.s = s, !.len = len, !.last_zero = z /\ len > 0,
                              !.unit_b = b]

SpecSize == InitSize /\ [][NextSize]_vars

----------------------------------------------------------------------------
(* The Rust allocator (alloc/mod.rs), in its two build variants: a block   *)
(* is the bytes of one allocation, the first at offset 0, followed by the  *)
(* memory after it as far as the allocator or the caller reaches.          *)

MaxBytes == 3             \* the caller's stores go to the first MaxBytes bytes of its region

size_of_usize == 8        \* mem::size_of::<usize>() and size_of::<u64>()

ByteValues == {0, 255}    \* the bytes a caller stores

\* the bytes of a word holding n, the lowest first (n is below 2^16)
usize_bytes(n) ==
    [i \in 1..size_of_usize |->
        IF i = 1 THEN n % 256 ELSE IF i = 2 THEN (n \div 256) % 256 ELSE 0]

\* *(ptr as *mut usize) = n with ptr at offset off
write_usize(mem, off, n) ==
    [i \in 1..Len(mem) |->
        IF off < i /\ i <= off + size_of_usize THEN usize_bytes(n)[i - off]
        ELSE mem[i]]

\* *(ptr as *mut usize) with ptr at offset off: the bytes of the word
read_usize(mem, off) == [i \in 1..size_of_usize |-> mem[off + i]]

\* the memory of an allocation of size bytes whose user pointer is at
\* offset user, for a request of bytes bytes
block_mem(size, user, bytes) ==
    LET reach == IF user + Min(bytes, MaxBytes) > size_of_usize
                 THEN user + Min(bytes, MaxBytes) ELSE size_of_usize
    IN  [i \in 1..(IF size > reach THEN size ELSE reach) |-> 0]

RustResult(e, size, unit, mem, user) ==
    [err |-> e, size |-> size, unit |-> unit, mem |-> mem, user |-> user]

\* Rust::alloc_bytes (nightly-alloc) once bytes.checked_add(align) gave total;
\* ok tells whether heap::allocate returns a block
nightly_allocated(bytes, align, total, ok) ==
    IF total = NoUsize THEN RustResult("SizeOverflow", 0, 1, <<>>, 0)
    ELSE IF ~ok THEN RustResult("Failed", 0, 1, <<>>, 0)
    ELSE RustResult("", total, 1,
                    write_usize(block_mem(total, align, bytes), 0, total), align)

\* Rust::alloc_bytes (nightly-alloc)
nightly_alloc_bytes(bytes, align, ok) ==
    nightly_allocated(bytes, Min(align_of_usize, align),
                      checked_add(bytes, Min(align_of_usize, align)), ok)

\* Rust::free (nightly-alloc): the block start and the size handed to
\* heap::deallocate
nightly_free(mem, user, align) ==
    [start |-> user - Min(align_of_usize, align),
     count |-> read_usize(mem, user - Min(align_of_usize, align)),
     unit |-> 1]

\* Rust::alloc_bytes (stable) once words was computed: vec![0u64; words],
\* vec[0] = bytes, the pointer to the second word
stable_allocated(bytes, words) ==
    IF words = 0 THEN RustResult("panic", 0, size_of_usize, <<>>, 0)
    ELSE RustResult("", words, size_of_usize,
                    write_usize(block_mem(words * size_of_usize, size_of_usize, bytes),
                                0, bytes),
                    size_of_usize)

\* Rust::alloc_bytes (stable); checks tells whether the build checks
\* arithmetic for overflow (it panics then) or lets it wrap
stable_alloc_bytes(bytes, align, checks) ==
    IF align > 8 THEN RustResult("CannotAlign", 0, size_of_usize, <<>>, 0)
    ELSE IF bytes + 15 > usize_MAX /\ checks
    THEN RustResult("panic", 0, size_of_usize, <<>>, 0)
    ELSE stable_allocated(bytes, ((bytes + 15) % (usize_MAX + 1)) \div 8)

\* Rust::free (stable): the block start and the length, in words, of the
\* boxed slice that is dropped
stable_free(mem, user) ==
    [start |-> user - size_of_usize,
     count |-> read_usize(mem, user - size_of_usize),
     unit |-> size_of_usize]

\* A::alloc_bytes(bytes, align) returned r
RustAllocDone(r) ==
    blk' = [blk EXCEPT !.state = IF r.err = "" THEN "allocated" ELSE "failed",
                       !.err = r.err, !.size = r.size, !.unit = r.unit,
                       !.mem = r.mem, !.user = r.user]

RustAlloc ==
    /\ blk.state = "requested"
    /\ \E b \in BOOLEAN :
          RustAllocDone(IF blk.variant = "nightly"
                        THEN nightly_alloc_bytes(blk.bytes, blk.align, b)
                        ELSE stable_alloc_bytes(blk.bytes, blk.align, b))
    /\ UNCHANGED <<convVars, ownVars, strVars, view, copy, sz>>

\* the caller stores a byte into the region of blk.bytes bytes it asked for
UserWrite ==
    /\ blk.state = "allocated"
    /\ \E i \in 1..Min(blk.bytes, MaxBytes), x \in ByteValues :
          blk' = [blk EXCEPT !.mem[blk.user + i] = x]
    /\ UNCHANGED <<convVars, ownVars, strVars, view, copy, sz>>

\* A::free(ptr, align) on the pointer alloc_bytes returned, with the
\* alignment it was given
RustFree ==
    /\ blk.state = "allocated"
    /\ blk' = [blk EXCEPT !.state = "freed",
                          !.freed = IF blk.variant = "nightly"
                                    THEN nightly_free(blk.mem, blk.user, blk.align)
                                    ELSE stable_free(blk.mem, blk.user)]
    /\ UNCHANGED <<convVars, ownVars, strVars, view, copy, sz>>

NextRust ==
    \/ RustAlloc
    \/ UserWrite
    \/ RustFree

\* the requests: few bytes or nearly all the bytes there are, and the
\* alignments of the unit types and one beyond
InitRust ==
    /\ ConvIdle /\ OwnedIdle /\ StrIdle
    /\ view = NoView /\ copy = NoCopy /\ sz = NoSize
    /\ \E v \in {"nightly", "stable"},
          n \in (0..MaxBytes) \cup {usize_MAX - 8, usize_MAX - 7, usize_MAX},
          a \in {1, 2, 4, 8, 16} :
          blk = [NoBlock EXCEPT !.state = "requested", !.variant = v,
                                !.bytes = n, !.align = a]

SpecRust == InitRust /\ [][NextRust]_vars

----------------------------------------------------------------------------
(* Properties of the transcoders *)

\* srcpos after the k-th call of next()
AfterCall(k) == IF k < Len(out) THEN pulls[k + 1] ELSE srcpos

\* the k-th call found the iterator unfused and a source unit to start from
Fresh(k) == pulls[k] < Len(src) /\ \A i \in 1..(k - 1) : IsOk(out[i])

IsHighSurrogate(u) == 55296 <= u /\ u <= 56319      \* 0xD800..0xDBFF
IsLowSurrogateUnit(u) == 56320 <= u /\ u <= 57343   \* 0xDC00..0xDFFF

NonRecoverablePipes == {"MbsToWc", "WcsToMb", "WcToUni", "MbsToUni"}

\* C1: in every transcoder that can fail (Multibyte->Wide, Wide->Multibyte,
\* Wide->Validated Unicode on both hosts, Multibyte->Validated Unicode), once
\* a call of next() has returned an Err item every later call returns None.
C1_FuseOnFirstError ==
    pipe \in NonRecoverablePipes =>
        \A i, j \in 1..Len(out) : (i < j /\ IsErr(out[i])) => IsNone(out[j])

\* an error was returned with source units left, and next() was called again
C1_Witness ==
    /\ pipe = "MbsToUni"
    /\ srcpos < Len(src)
    /\ \E i \in 1..Len(out) : IsErr(out[i]) /\ i < Len(out)

\* C7: on the UTF-32 host the Wide->Validated Unicode transcoder yields
\* Ok(the same value) for a wide unit exactly when the unit is a Unicode
\* scalar (0..0xD7FF or 0xE000..0x10FFFF); every other unit yields InvalidAt
\* and fuses, so no emitted unit lies outside the scalar range.
C7_ScalarRangeOnly ==
    (host = "linux" /\ pipe = "WcToUni") =>
        \A k \in 1..Len(out) :
            /\ IsOk(out[k]) => IsScalar(out[k].v)
            /\ Fresh(k) =>
                   LET u == src[pulls[k] + 1] IN
                   IF IsScalar(u) THEN out[k] = OkItem(u)
                   ELSE /\ out[k].tag = "InvalidAt"
                        /\ \A j \in (k + 1)..Len(out) : IsNone(out[j])

\* C8: on the UTF-16 host the Wide->Validated Unicode transcoder, reading
\* from a character boundary p of the source, yields InvalidAt(p) for a low
\* surrogate, Incomplete for a high surrogate that is the last unit,
\* InvalidAt for a high surrogate followed by a unit that is not a low
\* surrogate, and Ok(u) for a unit u that is no surrogate; every item before
\* the error is Ok.
C8_Utf16Malformed ==
    (host = "windows" /\ pipe = "WcToUni") =>
        \A k \in 1..Len(out) :
            Fresh(k) =>
                LET p == pulls[k]
                    u == src[p + 1]
                IN  /\ IsLowSurrogateUnit(u) =>
                           out[k] = InvalidAt("WcToUniError", p)
                    /\ (IsHighSurrogate(u) /\ p + 1 = Len(src)) =>
                           out[k] = Incomplete("WcToUniError")
                    /\ (IsHighSurrogate(u) /\ p + 1 < Len(src)
                           /\ ~IsLowSurrogateUnit(src[p + 2])) =>
                           out[k].tag = "InvalidAt"
                    /\ (~IsHighSurrogate(u) /\ ~IsLowSurrogateUnit(u)) =>
                           out[k] = OkItem(u) /\ AfterCall(k) = p + 1

\* a scalar was yielded, then a lone low surrogate was reported at index 1
C8_Witness ==
    /\ host = "windows" /\ pipe = "WcToUni"
    /\ Len(out) >= 2 /\ Len(src) >= 2
    /\ IsOk(out[1])
    /\ IsLowSurrogateUnit(src[2])
    /\ out[2] = InvalidAt("WcToUniError", 1)

\* C9: on the UTF-16 host, encoding any sequence of scalars to wide units
\* and decoding the wide units again yields the same scalars and no error;
\* a surrogate pair (h, l) decodes to 0x10000 + (((h & 0x3FF) << 10) | (l & 0x3FF)).
C9_Utf16RoundTrip ==
    host = "windows" =>
        /\ pipe = "UniToWcToUni" =>
               \A k \in 1..Len(out) :
                   out[k] = IF k <= Len(src) THEN OkItem(src[k]) ELSE NoneItem
        /\ pipe = "WcToUni" =>
               \A k \in 1..Len(out) :
                   (/\ Fresh(k)
                    /\ pulls[k] + 1 < Len(src)
                    /\ IsHighSurrogate(src[pulls[k] + 1])
                    /\ IsLowSurrogateUnit(src[pulls[k] + 2])) =>
                       out[k] = OkItem(65536
                                  + (((src[pulls[k] + 1] % 1024) * 1024)
                                  + (src[pulls[k] + 2] % 1024)))

\* a source with a scalar above 0xFFFF went through both transcoders to the end
C9_Witness ==
    /\ host = "windows" /\ pipe = "UniToWcToUni"
    /\ Len(out) > Len(src)
    /\ \E i \in 1..Len(src) : src[i] >= 65536

RECURSIVE Utf16Of(_)
Utf16Of(c) == IF c = <<>> THEN <<>> ELSE encode_utf16(Head(c)) \o Utf16Of(Tail(c))

\* number of wide units of the scalars pulled so far that are not yet
\* emitted, after calls calls of next()
Pending(pulled, calls) ==
    Len(Utf16Of(SubSeq(src, 1, pulled))) - Min(calls, Len(Utf16Of(src)))

\* C10: on the UTF-16 host the Validated Unicode->Wide transcoder emits the
\* UTF-16 encodings of the source scalars in order and never an error; it
\* holds at most one pending unit between calls, holds one exactly when the
\* second unit of a pair is due, and a call made while a unit is pending
\* pulls nothing from the source.
C10_Utf16Encode ==
    (host = "windows" /\ pipe = "UniToWc") =>
        LET enc == Utf16Of(src) IN
        /\ \A k \in 1..Len(out) :
               /\ out[k] = IF k <= Len(enc) THEN OkItem(enc[k]) ELSE NoneItem
               /\ Pending(pulls[k], k - 1) \in {0, 1}
               /\ Pending(pulls[k], k - 1) = 1 => AfterCall(k) = pulls[k]
        /\ (u2w.buf # NoBuf) <=> (Pending(srcpos, Len(out)) = 1)
        /\ u2w.buf # NoBuf => u2w.buf = enc[Len(out) + 1]

\* the first unit of a pair was emitted and the second is pending
C10_Witness ==
    /\ host = "windows" /\ pipe = "UniToWc"
    /\ u2w.buf # NoBuf
    /\ Len(out) >= 2
    /\ srcpos < Len(src)

----------------------------------------------------------------------------
(* Properties of owned strings *)

\* u up to, and without, its first zero unit
UpToZero(u) ==
    IF \E i \in 1..Len(u) : u[i] = 0
    THEN SubSeq(u, 1, (CHOOSE i \in 1..Len(u) :
                          u[i] = 0 /\ \A j \in 1..(i - 1) : u[j] # 0) - 1)
    ELSE u

\* u has a zero unit somewhere other than at its end
HasInteriorZero(u) == \E i \in 1..(Len(u) - 1) : u[i] = 0

\* C2: over new, any number of (into_ptr, from_ptr) and a final drop, the
\* allocation is freed exactly once, by the final drop: it is live and not
\* freed while the string or the caller's pointer owns it, into_ptr leaves
\* only a null pointer in the value it consumes, and no allocation is ever
\* freed twice.
C2_FreedOnceAtFinalDrop ==
    /\ life \in {"owned", "foreign", "dropped"} => Len(heap) = 1
    /\ \A a \in 1..Len(heap) :
          /\ heap[a].frees = (IF life = "dropped" THEN 1 ELSE 0)
          /\ heap[a].live = (life # "dropped")
    /\ life = "foreign" => owned.ptr = NULL /\ fptr.ptr = 1
    /\ life = "owned" => owned.ptr = 1

C2_Witness ==
    /\ life = "dropped" /\ transfers >= 2
    /\ heap[1].frees = 1

\* C3: from_ptr(into_ptr(x)) is present and has the units x had when
\* into_ptr consumed it, for ZeroTerm and for Slice.
C3_TransferRoundTrip ==
    last = "from_ptr" =>
        /\ life = "owned"
        /\ as_units(structure, heap, owned) = before

C3_Witness ==
    /\ last = "from_ptr" /\ life = "owned" /\ structure = "Slice"
    /\ transfers >= 2 /\ Len(before) >= 2
    /\ as_units(structure, heap, owned) = before

\* C4: for an owned ZeroTerm string, at any time, as_units_with_term() is
\* non-empty, ends within the allocation, has the zero unit last, is one
\* unit longer than as_units() and starts with the units of as_units().
C4_TerminatorInvariant ==
    (structure = "ZeroTerm" /\ life = "owned") =>
        LET wt == as_units_with_term(heap, owned)
            us == as_units(structure, heap, owned)
        IN  /\ Len(wt) >= 1
            /\ Len(wt) <= Len(heap[owned.ptr].cells)
            /\ wt[Len(wt)] = 0
            /\ Len(wt) = Len(us) + 1
            /\ SubSeq(wt, 1, Len(wt) - 1) = us

C4_Witness ==
    /\ structure = "ZeroTerm" /\ life = "owned"
    /\ writes >= 1 /\ transfers >= 1
    /\ Len(as_units(structure, heap, owned)) = 1
    /\ Len(heap[owned.ptr].cells) = 4
    /\ as_units_with_term(heap, owned)[2] = 0

C6_InteriorZeroRejected ==
    (structure = "ZeroTerm" /\ last = "new" /\ HasInteriorZero(units)) =>
        (life = "failed" /\ new_err # "")

----------------------------------------------------------------------------
(* Properties of the transcoders, continued *)

\* the item the call of next() just made returned
Returned == out'[Len(out')]

\* the verdict of the host routine on the first n units the source still
\* holds, from the stored conversion state
Verdict(n) == mbrtowc(SubSeq(src, srcpos + 1, srcpos + n), m2w.state)

\* the lengths of pending sequence on which the host routine decides
Decided ==
    {n \in 1..Min(Len(src) - srcpos, MB_LEN_MAX) : Verdict(n).ret # INCOMPLETE}

FirstDecided == CHOOSE n \in Decided : \A m \in Decided : n <= m

\* the outcome the verdicts on the growing prefix call for
VerdictOutcome ==
    IF Decided # {}
    THEN (IF Verdict(FirstDecided).ret = ILLEGAL THEN "InvalidAt" ELSE "Ok")
    ELSE IF Len(src) = srcpos THEN "None"
    ELSE IF Len(src) - srcpos < MB_LEN_MAX THEN "Incomplete"
    ELSE "OutOfBufferAt"

\* C11: a call of next() on the unfused Multibyte->Wide transcoder ends in
\* the outcome the host routine's verdicts on the growing prefix decide:
\* InvalidAt on the first 'illegal', Ok with the wide unit on the first
\* completed character, None when the source is exhausted with nothing
\* pending, Incomplete when it is exhausted with fewer than MB_LEN_MAX units
\* pending, OutOfBufferAt with MB_LEN_MAX units pending and still incomplete;
\* a character of at most MB_LEN_MAX units is never OutOfBufferAt.
C11_MbsToWcOutcomes ==
    [][(pipe = "MbsToWc" /\ m2w.iter) =>
          /\ Returned.tag = VerdictOutcome
          /\ Returned.tag = "Ok" => Returned.v = Verdict(FirstDecided).wc
          /\ Returned.tag = "OutOfBufferAt" => Decided = {}]_vars

C11_Witness ==
    /\ pipe = "MbsToWc" /\ Len(out) = 3 /\ Len(src) = 31
    /\ out[1].tag = "Ok" /\ out[1].v = 103
    /\ out[2].tag = "OutOfBufferAt" /\ pulls[3] = 1 + MB_LEN_MAX
    /\ out[3].tag = "None"

\* the units of the Ok items of items, in order
OkUnits(items) ==
    [i \in 1..Len(SelectSeq(items, IsOk)) |-> SelectSeq(items, IsOk)[i].v]

\* the units the host routine writes for the wide units ws[i], ws[i+1], ..
\* one after the other from state st, up to the first it rejects
RECURSIVE HostWrote(_, _, _)
HostWrote(ws, i, st) ==
    IF i > Len(ws) THEN <<>>
    ELSE LET r == wcrtomb(ws[i], st)
         IN  IF r.ret = ILLEGAL THEN <<>>
             ELSE r.bytes \o HostWrote(ws, i + 1, r.state)

\* a is the start of b
IsPrefix(a, b) == Len(a) <= Len(b) /\ a = SubSeq(b, 1, Len(a))

\* C12: in the Wide->Multibyte transcoder the units emitted so far are the
\* start of what the host routine wrote, in source order, for the wide
\* units pulled so far (none dropped, none repeated); a call pulls the next
\* wide unit only when everything written for the earlier ones has been
\* emitted; and an end of output without error has emitted all of it.
C12_DrainBeforePull ==
    pipe = "WcsToMb" =>
        /\ IsPrefix(OkUnits(out),
                    HostWrote(SubSeq(src, 1, srcpos), 1, StateZero))
        /\ \A k \in 1..Len(out) :
              AfterCall(k) > pulls[k] =>
                  Len(OkUnits(SubSeq(out, 1, k - 1))) =
                      Len(HostWrote(SubSeq(src, 1, pulls[k]), 1, StateZero))
        /\ (Len(out) > 0 /\ IsNone(out[Len(out)])
                         /\ \A k \in 1..Len(out) : ~IsErr(out[k])) =>
              OkUnits(out) = HostWrote(src, 1, StateZero)

C12_Witness ==
    /\ pipe = "WcsToMb" /\ locale = "utf8"
    /\ src = <<1114111, 103, 0>>
    /\ OkUnits(out) = <<244, 143, 191, 191, 103, 0>>
    /\ Len(out) = 7 /\ IsNone(out[7])

\* C13: no transcoder takes a zero unit for the end of its input: next()
\* returns None only once the source is exhausted or after an error item,
\* and a call that starts a character at a zero unit of the source returns
\* an Ok item for it (the zero unit of the target, or in the stateful locale
\* the shift unit that must precede it) and the calls go on from there.
C13_ZeroIsNoEnd ==
    \A k \in 1..Len(out) :
        /\ IsNone(out[k]) =>
              \/ AfterCall(k) = Len(src)
              \/ \E j \in 1..(k - 1) : IsErr(out[j])
        /\ (AfterCall(k) > pulls[k] /\ src[pulls[k] + 1] = 0) =>
              /\ IsOk(out[k])
              /\ out[k].v = 0 \/ (locale = "shift" /\ pipe = "WcsToMb")

C13_Witness ==
    /\ pipe \in {"MbsToWc", "MbsToUni"} /\ locale = "utf8"
    /\ src = <<0, 194, 170>>
    /\ Len(out) = 3
    /\ out[1] = OkItem(0) /\ out[2] = OkItem(170) /\ IsNone(out[3])

\* the chain of iterators as the constructors leave it
World0 ==
    [srcpos |-> 0,
     m2w |-> [iter |-> TRUE, at |-> 0, state |-> StateZero],
     w2m |-> w2m, w2u |-> [iter |-> TRUE, at |-> 0],
     u2w |-> [iter |-> TRUE, buf |-> NoBuf],
     lift |-> [iter |-> TRUE, trap |-> NoTrap]]

\* the items the Multibyte->Wide transcoder alone yields over src, up to
\* its first error or the end of its output, in at most n calls from w
RECURSIVE MbsToWcItems(_, _)
MbsToWcItems(w, n) ==
    IF n = 0 THEN <<>>
    ELSE LET r == MbsToWcIter2_next(w)
         IN  IF IsNone(r.item) THEN <<>>
             ELSE IF IsErr(r.item) THEN <<r.item>>
             ELSE <<r.item>> \o MbsToWcItems(r.w, n - 1)

\* the items the Wide->Validated Unicode transcoder alone yields over the
\* wide units ws from position i on, up to its first error
RECURSIVE WcToUniItems(_, _)
WcToUniItems(ws, i) ==
    IF i > Len(ws) THEN <<>>
    ELSE IF host = "linux"
    THEN IF linux_WcToUniAccepts(ws[i])
         THEN <<OkItem(ws[i])>> \o WcToUniItems(ws, i + 1)
         ELSE <<InvalidAt("WcToUniError", i - 1)>>
    ELSE LET cu0 == AsU16(ws[i])
         IN  IF ~IsHighSurrogate(cu0) /\ ~IsLowSurrogateUnit(cu0)
             THEN <<OkItem(cu0)>> \o WcToUniItems(ws, i + 1)
             ELSE IF IsLowSurrogateUnit(cu0)
             THEN <<InvalidAt("WcToUniError", i - 1)>>
             ELSE IF i = Len(ws) THEN <<Incomplete("WcToUniError")>>
             ELSE IF ~IsLowSurrogateUnit(AsU16(ws[i + 1]))
             THEN <<InvalidAt("WcToUniError", i - 1)>>
             ELSE <<OkItem(65536 + ((cu0 - 55296) * 1024)
                               + (AsU16(ws[i + 1]) - 56320))>>
                  \o WcToUniItems(ws, i + 2)

\* an item with its error, if it is one, turned into the unified kind
Unified(item) ==
    IF IsErr(item) THEN Item(item.tag, item.v, "MbsToUniError") ELSE item

\* the items of the two stages put together: what the second yields over
\* the wide units of the first, then the error of the first if the second
\* raised none
Composed ==
    LET s1 == MbsToWcItems(World0, Len(src) + 1)
        s2 == WcToUniItems(OkUnits(s1), 1)
        e1 == IF Len(s1) > 0 /\ IsErr(s1[Len(s1)]) THEN <<s1[Len(s1)]>> ELSE <<>>
        all == IF Len(s2) > 0 /\ IsErr(s2[Len(s2)]) THEN s2 ELSE s2 \o e1
    IN  [i \in 1..Len(all) |-> Unified(all[i])]

C15_OffsetsInMultibyteUnits ==
    pipe = "MbsToUni" =>
        \A k \in 1..Len(out) :
            out[k].tag = "InvalidAt" => out[k].v = pulls[k]

----------------------------------------------------------------------------
(* Properties of the whole-string operations *)

\* the items transcoder p returns from w on, up to its first None (at most
\* n of them)
RECURSIVE TranscoderItems(_, _, _)
TranscoderItemsFrom(p, r, n) ==
    IF IsNone(r.item) THEN <<>>
    ELSE <<r.item>> \o TranscoderItems(p, r.w, n - 1)

TranscoderItems(p, w, n) ==
    IF n = 0 THEN <<>> ELSE TranscoderItemsFrom(p, transcode_next(p, w), n)

\* the items of transcoder p over the whole of src (a source unit makes at
\* most MB_LEN_MAX items)
AllItems(p) == TranscoderItems(p, World0, MB_LEN_MAX * (Len(src) + 1))

ErrorsIn(items) == {k \in DOMAIN items : IsErr(items[k])}

FirstError(items) ==
    items[CHOOSE k \in ErrorsIn(items) : \A j \in ErrorsIn(items) : k <= j]

\* the UTF-8 encodings of the scalars items[i..], one after the other
RECURSIVE Utf8OfScalars(_, _)
Utf8OfScalars(items, i) ==
    IF i > Len(items) THEN <<>>
    ELSE Utf8Encode(items[i].v) \o Utf8OfScalars(items, i + 1)

\* what into_string is to return when the transcoder yields items
StringOf(items) ==
    IF ErrorsIn(items) = {} THEN StrResult(TRUE, Utf8OfScalars(items, 1), NoneItem)
    ELSE StrResult(FALSE, <<>>, FirstError(items))

LastStage == stages[Len(stages)]

\* C16: into_string on a borrowed string returns Ok(s) exactly when the
\* transcoder to Validated Unicode yields no error item over all units of
\* the string, s then being the UTF-8 encodings of all the scalars it
\* yields, in order; otherwise it returns Err with the first error item and
\* no string.
C16_IntoString ==
    (stages # <<>> /\ LastStage.called) =>
        LastStage.str = StringOf(AllItems(ToUni))

\* a wide string of the UTF-16 host with a surrogate pair becomes the four
\* bytes of U+1F600 after the byte of 'g'
C16_Witness ==
    /\ host = "windows"
    /\ stages # <<>>
    /\ stages[1].units = <<103, 55357, 56832>>
    /\ stages[1].str = StrResult(TRUE, <<103, 240, 159, 152, 128>>, NoneItem)

\* the values of the Ok items among items, in order
OkValues(items) == [k \in 1..Len(items) |-> items[k].v]

\* C17: transcode_to returns an owned string whose units are exactly the Ok
\* items of the transcoder, in order, if and only if every source unit
\* converts and the allocation succeeds; when the transcoder yields an error
\* item, transcode_to returns that error and nothing has been allocated.
C17_TranscodeTo ==
    last = "transcode_to" =>
        /\ (ErrorsIn(AllItems(pipe)) = {} /\ new_err = "") <=> life = "owned"
        /\ life = "owned" =>
              as_units(structure, heap, owned) = OkValues(AllItems(pipe))
        /\ ErrorsIn(AllItems(pipe)) # {} =>
              /\ t_err = FirstError(AllItems(pipe))
              /\ Len(heap) = Len(stages) - 1

\* a valid multibyte string without zero units, the zero-terminated wide
\* string it was transcoded to, and the zero-terminated multibyte string
\* that was transcoded to in turn
RoundTripped ==
    /\ structure = "ZeroTerm"
    /\ Len(stages) = 3
    /\ stages[1].enc = "MultiByte" /\ stages[2].enc = "Wide"
    /\ stages[3].enc = "MultiByte"
    /\ \A i \in 1..Len(stages[1].units) : stages[1].units[i] # 0

\* C18: a multibyte unit sequence m that is valid in the current locale and
\* has no zero unit, transcoded to a zero-terminated Wide owned string and
\* back to a zero-terminated Multibyte owned string, gives the units of m
\* again, and into_string gives the same host string for m, for the wide
\* string and for the round-tripped string.
C18_RoundTrip ==
    RoundTripped =>
        /\ stages[3].units = stages[1].units
        /\ \A j, k \in 1..3 :
              (stages[j].called /\ stages[k].called) =>
                  stages[j].str.ok /\ stages[j].str = stages[k].str

----------------------------------------------------------------------------
(* Properties of the comparisons *)

\* a is lexicographically smaller than b: at the first position where they
\* differ a has the smaller unit, or a is a proper prefix of b
LexLess(a, b) ==
    \E k \in 1..(Len(b)) :
        /\ \A i \in 1..(k - 1) : i <= Len(a) /\ a[i] = b[i]
        /\ k - 1 <= Len(a)
        /\ (k = Len(a) + 1 \/ a[k] < b[k])

Reverse(o) == IF o = "Less" THEN "Greater" ELSE IF o = "Greater" THEN "Less" ELSE o

\* the units of the two strings compared
OwnUnits == as_units(structure, heap, owned)
OtherUnits == as_units(other.s, other.r.heap, other.r.owned)

\* C19: equality and ordering of two strings of one encoding, whatever
\* their structures and in either operand order, are decided by their
\* as_units() alone: == holds exactly when the unit sequences are the same,
\* < exactly when the first is lexicographically smaller, and eq,
\* partial_cmp and cmp agree.
C19_ComparisonsByUnits ==
    cmps.done =>
        /\ cmps.eq <=> OwnUnits = OtherUnits
        /\ cmps.cmp = "Less" <=> LexLess(OwnUnits, OtherUnits)
        /\ cmps.cmp = "Greater" <=> LexLess(OtherUnits, OwnUnits)
        /\ cmps.partial_cmp = cmps.cmp
        /\ cmps.eq <=> cmps.cmp = "Equal"
        /\ cmps.req = cmps.eq
        /\ cmps.rcmp = Reverse(cmps.cmp)
        /\ cmps.rpartial_cmp = cmps.rcmp

\* a zero-terminated "ab" is smaller than the slice "ab\0", and a slice
\* "ab" would be equal to it
C19_Witness ==
    /\ cmps.done
    /\ structure = "ZeroTerm" /\ other.s = "Slice"
    /\ OwnUnits = <<97, 98>> /\ OtherUnits = <<97, 98, 0>>
    /\ cmps.cmp = "Less" /\ ~cmps.eq

----------------------------------------------------------------------------
(* Properties of mutation *)

\* the positions at which the owned string differs from the units it was
\* made of
Changed == {i \in 1..Min(Len(OwnUnits), Len(units)) : OwnUnits[i] # units[i]}

\* C20: for the Slice structure, after any number of stores through
\* as_units_mut, stores of zero units among them, as_units() has the length
\* it had before, and the units at positions not stored to are unchanged
\* (at most one position differs for each store).
C20_SliceWritesKeepLength ==
    (structure = "Slice" /\ life = "owned") =>
        /\ Len(OwnUnits) = Len(units)
        /\ Cardinality(Changed) <= writes

\* a zero unit stored in the middle of the slice "aba"
C20_Witness ==
    /\ structure = "Slice" /\ life = "owned"
    /\ units = <<97, 98, 97>>
    /\ OwnUnits = <<97, 0, 97>>
    /\ writes = 1

----------------------------------------------------------------------------
(* Properties of the Multibyte->Wide transcoder, continued *)

\* C28: in the Multibyte->Wide transcoder the position counter is, after
\* every emission of a wide unit, the number of source units pulled so
\* far, and the offset in InvalidAt and OutOfBufferAt is the index in the
\* source of the first unit of the offending sequence (the number of units
\* the wide units emitted before it consumed).
C28_PositionCounter ==
    pipe = "MbsToWc" =>
        /\ (Len(out) > 0 /\ IsOk(out[Len(out)])) => m2w.at = srcpos
        /\ \A k \in 1..Len(out) :
              out[k].tag \in {"InvalidAt", "OutOfBufferAt"} =>
                  out[k].v = pulls[k]

\* U+00AA and 'g' (three units) emitted, then a unit that cannot lead
C28_Witness ==
    /\ pipe = "MbsToWc" /\ locale = "utf8"
    /\ src = <<194, 170, 103, 255>>
    /\ Len(out) = 3
    /\ out[3] = InvalidAt("MbsToWcError", 3)

\* the source units pulled by the step
Consumed == SubSeq(src, srcpos + 1, srcpos')

\* C29: the stored conversion state of the Multibyte->Wide transcoder
\* changes only when a wide unit is emitted: the emitted unit and the new
\* state are what the host routine gives for the whole sequence from the
\* state left by the previous emission, and a call that ends in an error
\* or at the end of the source leaves the state as it was.
C29_StateOnlyOnEmission ==
    [][pipe = "MbsToWc" =>
          IF IsOk(Returned)
          THEN /\ m2w'.state = mbrtowc(Consumed, m2w.state).state
               /\ Returned.v = mbrtowc(Consumed, m2w.state).wc
          ELSE m2w'.state = m2w.state]_vars

\* in the stateful locale a shifted 'g' was emitted and left the shift
\* state set; the next call ran into a unit that is illegal
C29_Witness ==
    /\ pipe = "MbsToWc" /\ locale = "shift"
    /\ src = <<SO, 103, 200>>
    /\ Len(out) = 2
    /\ out[1] = OkItem(103 + FullWidth)
    /\ IsErr(out[2])
    /\ m2w.state = 1

----------------------------------------------------------------------------
(* Properties of unchecked mutation *)

\* the zero-terminated string ends in a zero unit inside its allocation
Terminated ==
    /\ Len(as_units_with_term(heap, owned)) <= Len(heap[owned.ptr].cells)
    /\ as_units_with_term(heap, owned)[Len(as_units_with_term(heap, owned))] = 0

\* a unit is stored into the zero-terminated string by the step
ZeroTermWrite == structure = "ZeroTerm" /\ last' = "write" /\ writes' = writes + 1

----------------------------------------------------------------------------
(* Properties of foreign pointers and views *)

\* C22: for ZeroTerm and for Slice, borrowing from a null foreign pointer
\* and taking ownership of a null foreign pointer return None and leave
\* the memory as it is; a pointer that is not null gives a present value
\* that is this pointer, whatever it points to.
C22_NullIsAbsent ==
    [][/\ last' = "borrow_from_ptr" =>
            /\ heap' = heap
            /\ view'.some <=> view'.arg.ptr # NULL
            /\ view'.some => view'.ref = view'.arg
       /\ last' \in {"from_ptr", "from_null_ptr"} =>
            /\ heap' = heap
            /\ life' = "none" <=> fptr'.ptr = NULL
            /\ life' = "owned" <=> fptr'.ptr # NULL
            /\ life' = "owned" => owned'.ptr = fptr'.ptr]_vars

\* the null pointer was borrowed from and gave None, then the null slice
\* pointer with length 2 was taken ownership of and gave None
C22_Witness ==
    /\ life = "none" /\ last = "from_null_ptr" /\ fptr = Owned(NULL, 2)
    /\ heap = <<>>
    /\ view.arg.ptr = NULL /\ ~view.some

\* the view of the owned string that Deref gives
OwnView == borrow_from_owned(structure, owned)

\* C23: for an owned string x, the view from_ptr(x.as_ptr()) returns has
\* the units of the view that re-borrows x, and as_ptr of it is the same
\* pointer (with the same length, for Slice) again; as_slice() of a string
\* has exactly the units of as_units().
C23_ViewsAgree ==
    life = "owned" =>
        /\ (last = "borrow_from_ptr" /\ view.arg = SeStr_as_ptr(structure, OwnView)) =>
              /\ view.some
              /\ as_units(structure, heap, view.ref) = as_units(structure, heap, OwnView)
              /\ SeStr_as_ptr(structure, view.ref) = view.arg
        /\ last = "as_slice" =>
              Slice_slice_units(heap[view.ref.ptr].cells, view.ref.len)
                  = as_units(structure, heap, OwnView)

\* the slice string "ab" borrowed again from its own pointer and length
C23_Witness ==
    /\ life = "owned" /\ last = "borrow_from_ptr" /\ structure = "Slice"
    /\ view.some /\ view.arg = Owned(owned.ptr, 2)
    /\ as_units(structure, heap, view.ref) = <<97, 98>>

----------------------------------------------------------------------------
(* Properties of construction *)

\* the buffers of the owned string and of the string it is compared with
OwnCells == heap[owned.ptr].cells
OtherCells == other.r.heap[other.r.owned.ptr].cells

\* both strings are zero-terminated and the other one was made of the units
\* of the owned one followed by one zero unit
ZeroAppended ==
    /\ structure = "ZeroTerm" /\ life = "owned"
    /\ other.s = "ZeroTerm" /\ other.u = Append(units, 0)

\* the units are empty or their last unit is not zero
NeedsTerm == units = <<>> \/ units[Len(units)] # 0

C27_DefaultIsEmpty ==
    last = "default" =>
        /\ Len(as_units(structure, static_mem, view.ref)) = 0
        /\ structure = "ZeroTerm" => as_units_with_term(static_mem, view.ref) = <<0>>
        /\ life = "owned" =>
              /\ Len(as_units(structure, heap, owned)) = 0
              /\ structure = "ZeroTerm" => as_units_with_term(heap, owned) = <<0>>

\* a default zero-terminated owned string: one allocation of one zero unit
C27_Witness ==
    /\ last = "default" /\ life = "owned" /\ structure = "ZeroTerm"
    /\ heap[owned.ptr].cells = <<0>>
    /\ view.ref = Owned(1, 0)

----------------------------------------------------------------------------
(* Properties of copies *)

\* the units of the copy
CopyUnits == as_units(structure, heap, copy.o)

\* C24: clone and to_owned_by give an owned string with the units of the
\* source in a new live allocation that is not the source's, and leave the
\* source as it was; dropping or writing to the source leaves the units of
\* the copy unchanged and its allocation live, and dropping or writing to
\* the copy does the same for the source.
C24_CopyIsIndependent ==
    [][/\ (last' \in {"clone", "to_owned_by"} /\ copy'.state = "live") =>
            /\ copy'.o.ptr # owned.ptr
            /\ copy'.o.ptr > Len(heap)
            /\ heap'[copy'.o.ptr].live
            /\ CopyUnits' = OwnUnits
            /\ heap'[owned.ptr] = heap[owned.ptr]
       /\ (copy.state = "live" /\ last' \in {"write", "drop"}) =>
            /\ CopyUnits' = CopyUnits
            /\ heap'[copy.o.ptr].live
       /\ (life = "owned" /\ last' \in {"write_copy", "drop_copy"}) =>
            /\ OwnUnits' = OwnUnits
            /\ heap'[owned.ptr].live]_vars

\* "ab" was cloned, the copy was changed to "bb" and the source dropped
C24_Witness ==
    /\ copy.state = "live" /\ life = "dropped" /\ last = "drop"
    /\ copy.at = <<97, 98>> /\ CopyUnits = <<98, 98>>
    /\ heap[copy.o.ptr].live /\ ~heap[owned.ptr].live

----------------------------------------------------------------------------
(* Properties of the size computation *)

\* the terminator alloc_owned adds to the units of sz
SizeTerm ==
    IF sz.s = "ZeroTerm" /\ ~(sz.len > 0 /\ sz.last_zero) THEN 1 ELSE 0

\* C25: alloc_owned returns SizeOverflow without calling the allocator
\* whenever the unit count plus the terminator, or that count times the
\* unit size, is larger than the largest machine word; otherwise the
\* allocator is called with exactly (units + terminator) x size_of(Unit)
\* bytes, the terminator being none for Slice.
C25_SizeOverflow ==
    sz.done =>
        IF sz.len + SizeTerm > usize_MAX
              \/ (sz.len + SizeTerm) * sz.unit_b > usize_MAX
        THEN sz.r.err = "SizeOverflow" /\ ~sz.r.called
        ELSE /\ sz.r.err # "SizeOverflow" /\ sz.r.called
             /\ sz.r.bytes = (sz.len + SizeTerm) * sz.unit_b
             /\ sz.r.bytes <= usize_MAX

\* the largest count of 4-byte units that fits, without a zero unit last:
\* with the terminator the byte count does not fit
C25_Witness ==
    /\ sz.done /\ sz.s = "ZeroTerm" /\ sz.unit_b = 4
    /\ sz.len = usize_MAX \div 4 /\ ~sz.last_zero
    /\ sz.r.err = "SizeOverflow" /\ ~sz.r.called

----------------------------------------------------------------------------
(* Properties of the Rust allocator *)

\* the header of the block and the region of the caller have a byte in common
HeaderOverlapped == blk.bytes > 0 /\ blk.user < size_of_usize

\* C30: for every request Rust::alloc_bytes accepts and whatever is then
\* stored in the region, the header lies within the block and outside the
\* region of the caller, the block holds the header and the region (the
\* size arithmetic did not wrap), and free hands back the start of the
\* block and the size that was allocated.
C30_RustFreeRecovers ==
    /\ blk.state \in {"allocated", "freed"} =>
          /\ ~HeaderOverlapped
          /\ blk.size * blk.unit >= size_of_usize
          /\ blk.size * blk.unit >= blk.user + blk.bytes
    /\ blk.state = "freed" =>
          /\ blk.freed.start = 0
          /\ blk.freed.unit = blk.unit
          /\ blk.freed.count = usize_bytes(blk.size)

====
